---- MODULE Spec2Model ----
(***************************************************************************)
(* Verification model of the document-upload Lambda (src/unnamed/part_000) *)
(* and of the chat Lambda (src/api/lambda-functions/chat-lambda.js) of     *)
(* roryp/html-wcag-issues.                                                 *)
(*                                                                         *)
(* JavaScript values carry their runtime type, so that typeof, truthiness, *)
(* JSON.parse and JSON.stringify are computed and not assumed.  A string   *)
(* is a sequence of atoms (chunks of characters): "/", "." and "_" are     *)
(* always atoms of their own, so concatenation, split('.') and equality of *)
(* strings are those of the sequences.                                     *)
(***************************************************************************)
EXTENDS Integers, Sequences, FiniteSets, TLC

----------------------------------------------------------------------------
(* Bounds of the model *)

\* Number of invocations of the Upload Handler in a behaviour of Spec.
MaxInvocations == 1

\* Number of invocations of the Upload Handler in a behaviour of SpecRepeat.
MaxRepeats == 2

\* Number of milliseconds the clock advances in a behaviour.
MaxTicks == 1

----------------------------------------------------------------------------
(* JavaScript values *)

Undefined == [type |-> "undefined"]

Null == [type |-> "null"]

Str(s) == [type |-> "string", chars |-> s]

Num(n) == [type |-> "number", n |-> n]

NaN == [type |-> "number", nan |-> TRUE]

Obj(f) == [type |-> "object", fields |-> f]

\* The string that is the JSON encoding of the value v.
JsonText(v) == [type |-> "string", json |-> v]

\* The object with no own property.
EmptyObject == [k \in {} |-> Undefined]

IsJsonText(v) == v.type = "string" /\ "json" \in DOMAIN v

\* typeof v === 'string'
IsString(v) == v.type = "string"

\* ToBoolean(v): undefined, null, "", 0 and NaN are falsy.
Truthy(v) ==
  CASE v.type = "undefined" -> FALSE
    [] v.type = "null" -> FALSE
    [] v.type = "number" -> v # NaN /\ v.n # 0
    [] v.type = "string" -> IF IsJsonText(v) THEN TRUE ELSE v.chars # <<>>
    [] OTHER -> TRUE

\* o[k] of a property map: undefined when o has no property k.
Get(o, k) == IF k \in DOMAIN o THEN o[k] ELSE Undefined

\* { ...a, ...b }: the properties of b replace those of a.
Spread(a, b) ==
  [k \in DOMAIN a \cup DOMAIN b |-> IF k \in DOMAIN b THEN b[k] ELSE a[k]]

\* JSON.stringify(v): the JSON text of v; a property whose value is undefined
\* is left out of the text of an object.
JsonStringify(v) ==
  IF v.type = "object"
  THEN JsonText(Obj([k \in {j \in DOMAIN v.fields : v.fields[j] # Undefined}
                      |-> v.fields[k]]))
  ELSE JsonText(v)

\* JSON.parse(text): the value a JSON text encodes; any other string is a
\* SyntaxError.
JsonParseThrows(text) == ~IsJsonText(text)

JsonParse(text) == text.json

\* Object.assign(target, source): the own properties of an object source are
\* copied; null and numbers have none.
ObjectAssign(target, source) ==
  IF source.type = "object" THEN Spread(target, source.fields) ELSE target

\* String.prototype.toLowerCase on one atom.
LowerAtom(a) ==
  CASE a = "PDF" -> "pdf"
    [] a = "TXT" -> "txt"
    [] a = "DOC" -> "doc"
    [] a = "DOCX" -> "docx"
    [] a = "NOTES" -> "notes"
    [] a = "Report" -> "report"
    [] a = "PROTOCOL" -> "protocol"
    [] OTHER -> a

toLowerCase(s) == [i \in 1..Len(s) |-> LowerAtom(s[i])]

\* Index of the last "." of s, 0 when there is none.
LastDot(s) ==
  LET dots == {i \in 1..Len(s) : s[i] = "."}
  IN IF dots = {} THEN 0 ELSE CHOOSE i \in dots : \A j \in dots : j <= i

\* s.split('.').pop(): what follows the last "." (all of s without one).
SplitPop(s) == SubSeq(s, LastDot(s) + 1, Len(s))

\* `${n}`
NumberToString(n) == <<ToString(n)>>

\* new Date(t).toISOString()
toISOString(t) == <<"iso", ToString(t)>>

----------------------------------------------------------------------------
(* Configuration (of process.env only MAX_FILE_SIZE is followed) *)

VARIABLE
  processEnv        \* process.env.MAX_FILE_SIZE of the upload function

\* The integer a string of digits, signed or not, denotes.
IntegerOf(numeral) ==
  CASE numeral = "0" -> 0
    [] numeral = "1000" -> 1000
    [] numeral = "26214400" -> 26214400
    [] numeral = "-5" -> 0 - 5

Numerals == { "0", "1000", "26214400", "-5" }

\* parseInt(v): the integer the text of v begins with, NaN when it begins
\* with none (undefined is read as the text "undefined").
parseInt(v) ==
  IF IsString(v) /\ v.chars # <<>> /\ v.chars[1] \in Numerals
  THEN Num(IntegerOf(v.chars[1]))
  ELSE NaN

DefaultMaxFileSize == 25 * 1024 * 1024

\* Mutant of maxFileSize: the environment is not consulted.
maxFileSize_unconfigured == DefaultMaxFileSize

\* config.maxFileSize: parseInt(process.env.MAX_FILE_SIZE) || 25 * 1024 * 1024
maxFileSize ==
  IF Truthy(parseInt(processEnv))
  THEN parseInt(processEnv).n
  ELSE DefaultMaxFileSize

\* config.allowedTypes
allowedTypes ==
  { <<"application", "/", "pdf">>,
    <<"application", "/", "vnd", ".", "openxmlformats-officedocument", ".",
      "wordprocessingml", ".", "document">>,
    <<"text", "/", "plain">> }

\* The extensions isValidFileType accepts.
allowedExtensions == { <<"pdf">>, <<"docx">>, <<"txt">> }

----------------------------------------------------------------------------
(* Pure functions of the Upload Handler *)

\* Mutant of isValidFileType: any extension passes.
isValidFileType_anyExtension(file) ==
  \/ file.contentType \in allowedTypes
  \/ LastDot(file.filename) > 0

isValidFileType(file) ==
  \/ file.contentType \in allowedTypes
  \/ toLowerCase(SplitPop(file.filename)) \in allowedExtensions

getFileType(file) ==
  LET extension == toLowerCase(SplitPop(file.filename))
  IN CASE extension = <<"pdf">> -> <<"pdf">>
       [] extension \in { <<"docx">>, <<"doc">> } -> <<"docx">>
       [] OTHER -> <<"txt">>

\* Mutant of generateDocumentId: the random suffix is left out.
generateDocumentId_noRandom(t, rnd) == <<"doc", "_">> \o NumberToString(t)

\* `doc_${Date.now()}_${Math.random().toString(36).substring(2, 10)}`
generateDocumentId(t, rnd) == <<"doc", "_">> \o NumberToString(t) \o <<"_", rnd>>

\* Mutant of s3KeyOf: the key leaves the document id out.
s3KeyOf_noDocumentId(userId, documentId, filename) ==
  userId \o <<"/">> \o filename

\* `${userId}/${documentId}/${file.filename}`
s3KeyOf(userId, documentId, filename) ==
  userId \o <<"/">> \o documentId \o <<"/">> \o filename

responseHeaders ==
  [ContentType |-> <<"application", "/", "json">>,
   AccessControlAllowOrigin |-> <<"*">>,
   AccessControlAllowMethods |-> <<"OPTIONS,POST,GET">>,
   AccessControlAllowHeaders |->
     <<"Content-Type,X-Amz-Date,Authorization,X-Api-Key,X-Amz-Security-Token">>]

\* Mutant of createResponse: the body is handed over as an object.
createResponse_objectBody(statusCode, body) ==
  [statusCode |-> statusCode,
   headers |-> responseHeaders,
   body |-> Obj(body)]

createResponse(statusCode, body) ==
  [statusCode |-> statusCode,
   headers |-> responseHeaders,
   body |-> JsonStringify(Obj(body))]

\* Mutant of parseMetadata: the parsed object is never assigned to metadata.
parseMetadata_notAssigned(field) == EmptyObject

\* Lines 62-71: the metadata object built from the form's metadata field.
parseMetadata(field) ==
  IF ~Truthy(field) THEN EmptyObject
  ELSE IF JsonParseThrows(field) THEN EmptyObject
  ELSE ObjectAssign(EmptyObject, JsonParse(field))

\* Lines 107-115: the Metadata block of the uploaded object.
s3Metadata(userId, documentId, filename, metadata) ==
  Spread([userId |-> Str(userId),
          documentId |-> Str(documentId),
          originalName |-> Str(filename)],
         [k \in DOMAIN metadata |->
            IF IsString(metadata[k]) THEN metadata[k]
            ELSE JsonStringify(metadata[k])])

\* Mutant of documentOf: the custom metadata is spread over the record.
documentOf_spreadsMetadata(userId, file, metadata, documentId, fileType, s3Key, t) ==
  Spread([id |-> Str(documentId),
          userId |-> Str(userId),
          filename |-> Str(file.filename),
          type |-> Str(fileType),
          size |-> Num(file.content.length),
          title |-> Str(file.filename),
          uploaded |-> Str(toISOString(t)),
          status |-> Str(<<"processing">>),
          s3Key |-> Str(s3Key),
          metadata |-> Obj(metadata)],
         metadata)

\* Lines 119-130: the document record.
documentOf(userId, file, metadata, documentId, fileType, s3Key, t) ==
  [id |-> Str(documentId),
   userId |-> Str(userId),
   filename |-> Str(file.filename),
   type |-> Str(fileType),
   size |-> Num(file.content.length),
   title |-> IF Truthy(Get(metadata, "title")) THEN metadata.title
             ELSE Str(file.filename),
   uploaded |-> Str(toISOString(t)),
   status |-> Str(<<"processing">>),
   s3Key |-> Str(s3Key),
   metadata |-> Obj(metadata)]

\* Lines 141-147: the body of the work item.
messageBodyOf(documentId, userId, s3Key, fileType, t) ==
  JsonStringify(Obj([documentId |-> Str(documentId),
                     userId |-> Str(userId),
                     s3Key |-> Str(s3Key),
                     fileType |-> Str(fileType),
                     timestamp |-> Str(toISOString(t))]))

\* Mutant of resultOf: the whole document record is returned.
resultOf_wholeRecord(document) == document

\* Lines 151-159: what processFile returns to the client.
resultOf(document) ==
  [id |-> document.id,
   filename |-> document.filename,
   type |-> document.type,
   size |-> document.size,
   title |-> document.title,
   uploaded |-> document.uploaded,
   status |-> document.status]

----------------------------------------------------------------------------
(* Requests: the events the handler is invoked with *)

\* The subject ids the authorizer issues (Cognito subs contain no "/").
Subjects == { <<"u1">>, <<"u2">> }

ClaimsOf(sub) == Obj([sub |-> Str(sub)])

\* event.requestContext?.authorizer?.claims of a request without an
\* authorizer, and of one whose claims carry no sub.
NoSubClaims == { Undefined, Obj([email |-> Str(<<"a@example", ".", "com">>)]) }

Content(bytes, length) == [bytes |-> bytes, length |-> length]

File(filename, contentType, content) ==
  [filename |-> filename, contentType |-> contentType, content |-> content]

MimePdf == <<"application", "/", "pdf">>

MimeDocx ==
  <<"application", "/", "vnd", ".", "openxmlformats-officedocument", ".",
    "wordprocessingml", ".", "document">>

MimeDoc == <<"application", "/", "msword">>

MimeText == <<"text", "/", "plain">>

MimeBinary == <<"application", "/", "octet-stream">>

ReportPdf == File(<<"report", ".", "pdf">>, MimePdf, Content("A", 1000))

HugePdf == File(<<"report", ".", "pdf">>, MimePdf, Content("B", DefaultMaxFileSize + 1))

MemoDoc == File(<<"memo", ".", "doc">>, MimeDoc, Content("C", 1000))

MemoDocAsDocx == File(<<"memo", ".", "doc">>, MimeDocx, Content("C", 1000))

MemoDocx == File(<<"memo", ".", "docx">>, MimeBinary, Content("D", 1000))

RunExe == File(<<"run", ".", "exe">>, MimeBinary, Content("E", 1000))

HugeExe == File(<<"run", ".", "exe">>, MimeBinary, Content("F", DefaultMaxFileSize + 1))

NotesTxt == File(<<"NOTES", ".", "TXT">>, MimeBinary, Content("G", DefaultMaxFileSize))

DataBin == File(<<"a", "/", "data", ".", "bin">>, MimeText, Content("H", 1000))

Files ==
  { ReportPdf, HugePdf, MemoDoc, MemoDocAsDocx, MemoDocx, RunExe, HugeExe,
    NotesTxt, DataBin }

TitleField == JsonText(Obj([title |-> Str(<<"Q1 Report">>)]))

InvalidJsonField == Str(<<"{title:">>)

EmptyTitleField == JsonText(Obj([title |-> Str(<<>>)]))

MixedField == JsonText(Obj([title |-> Str(<<"Q1 Report">>), pages |-> Num(3)]))

UserIdField == JsonText(Obj([userId |-> Str(<<"u2">>)]))

\* formData.metadata: absent, empty, not JSON, or the JSON text of a value.
MetadataFields ==
  { Undefined, Str(<<>>), InvalidJsonField, TitleField, EmptyTitleField,
    MixedField, UserIdField, JsonText(Null) }

Error(message) == [message |-> message]

\* What parser.parse(event) resolves to, or the error it rejects with.
FormData(files, metadata) == [files |-> files, metadata |-> metadata]

ParseError == [rejected |-> Error(<<"Missing Content-Type">>)]

ParseRejects(parsed) == "rejected" \in DOMAIN parsed

Event(claims, parsed) == [claims |-> claims, parsed |-> parsed]

Events ==
  {Event(c, ParseError) : c \in {Undefined, ClaimsOf(<<"u1">>)}}
  \cup {Event(ClaimsOf(<<"u1">>), FormData(<<>>, TitleField))}
  \cup {Event(c, FormData(<<f>>, m)) :
          c \in NoSubClaims, f \in {ReportPdf, HugeExe},
          m \in {Undefined, TitleField}}
  \cup {Event(ClaimsOf(<<"u1">>), FormData(<<f>>, Undefined)) : f \in Files}
  \cup {Event(ClaimsOf(<<"u1">>), FormData(<<ReportPdf>>, m)) :
          m \in MetadataFields}
  \cup {Event(ClaimsOf(<<"u1">>), FormData(<<f>>, InvalidJsonField)) :
          f \in {HugePdf, RunExe}}
  \cup {Event(ClaimsOf(<<"u2">>), FormData(<<ReportPdf>>, Undefined)),
        Event(ClaimsOf(<<"u1">>), FormData(<<ReportPdf, RunExe>>, Undefined))}

\* Math.random().toString(36).substring(2, 10)
RandomSuffixes == { "k3j9x2ab", "q" }

S3Error == Error(<<"S3 upload failed">>)

DynamoError == Error(<<"DynamoDB put failed">>)

SqsError == Error(<<"SQS send failed">>)

----------------------------------------------------------------------------
(* State *)

VARIABLES
  now,              \* Date.now()
  s3Objects,        \* Blob Store: Key -> [Body, ContentType, Metadata]
  documentsTable,   \* Record Store, hash key id: id -> Item
  processingQueue,  \* Work Queue: the MessageBody of every message sent
  pc,               \* where the running invocation is
  invocations,      \* invocations started so far
  event,            \* the event of the running (or last) invocation
  frame,            \* the locals of processFile
  response,         \* what the running (or last) invocation returned
  calls,            \* the external calls of the running (or last) invocation
  before,           \* the three stores when that invocation began
  uploads,          \* every finished processFile: its locals, calls, status
  conversationsTable, \* Conversation Store: <<userId, conversationId>> -> Item
  chat              \* the Chat Handler's invocations, in order of arrival

\* The chat page of the browser (src/js/chat.js).
VARIABLES
  conversationHistory, \* the turns of the page, each [role, content]
  isGenerating,        \* a response is being generated
  userInput,           \* userInput.value
  chatMessages,        \* the senders of the messages shown, in order
  timers,              \* the timers of the page that are still to fire
  submissions,         \* submit events and Enter presses so far
  accepted             \* submissions that were not ignored

\* The search page of the browser.
VARIABLES
  currentPage,
  totalPages,
  currentQuery,
  currentFilters,
  searchResults,       \* what the results container shows
  pagination,          \* the pagination controls: hidden, buttons disabled
  pendingSearches,     \* the searches whose delivery is still to come
  searchEvents         \* submissions, filter changes and page clicks so far

chatPageVars ==
  <<conversationHistory, isGenerating, userInput, chatMessages, timers,
    submissions, accepted>>

searchPageVars ==
  <<currentPage, totalPages, currentQuery, currentFilters, searchResults,
    pagination, pendingSearches, searchEvents>>

pageVars == <<chatPageVars, searchPageVars>>

vars ==
  <<now, s3Objects, documentsTable, processingQueue, pc, invocations, event,
    frame, response, calls, before, uploads, conversationsTable, chat,
    processEnv, pageVars>>

stores == <<s3Objects, documentsTable, processingQueue>>

\* What the Upload Handler reads and writes, the clock apart.
uploadVars ==
  <<stores, pc, invocations, event, frame, response, calls, before, uploads,
    processEnv>>

\* What the Chat Handler reads and writes, the clock apart.
chatVars == <<conversationsTable, chat>>

NoFrame == [none |-> TRUE]

NoEvent == [none |-> TRUE]

NoResponse == [none |-> TRUE]

EmptyStore == [k \in {} |-> Undefined]

Put(store, key, item) ==
  [k \in DOMAIN store \cup {key} |-> IF k = key THEN item ELSE store[k]]

\* The state after construction but for the environment.
InitState ==
  /\ now = 0
  /\ s3Objects = EmptyStore
  /\ documentsTable = EmptyStore
  /\ processingQueue = <<>>
  /\ pc = "idle"
  /\ invocations = 0
  /\ event = NoEvent
  /\ frame = NoFrame
  /\ response = NoResponse
  /\ calls = <<>>
  /\ before = stores
  /\ uploads = <<>>
  /\ conversationsTable = EmptyStore
  /\ chat = <<>>
  /\ conversationHistory = <<>>
  /\ isGenerating = FALSE
  /\ userInput = <<>>
  /\ chatMessages = <<>>
  /\ timers = <<>>
  /\ submissions = 0
  /\ accepted = 0
  /\ currentPage = 1
  /\ totalPages = 1
  /\ currentQuery = ""
  /\ currentFilters = [type |-> {}, date |-> "all"]
  /\ searchResults = [shown |-> "nothing"]
  /\ pagination = [hidden |-> TRUE, prevDisabled |-> TRUE, nextDisabled |-> TRUE]
  /\ pendingSearches = <<>>
  /\ searchEvents = 0

\* MAX_FILE_SIZE is not set.
Init == InitState /\ processEnv = Undefined

----------------------------------------------------------------------------
(* The Upload Handler *)

\* claims?.sub
subOf(claims) ==
  IF claims.type = "undefined" THEN Undefined ELSE Get(claims.fields, "sub")

\* The catch block of exports.handler (lines 78-81).
internalServerError(error) ==
  createResponse(500, [error |-> Str(<<"Internal server error">>),
                       details |-> Str(error.message)])

\* The handler returns without entering processFile.
returnEarly(r) ==
  /\ response' = r
  /\ pc' = "returned"
  /\ frame' = NoFrame
  /\ UNCHANGED <<chatVars, pageVars, processEnv, now, stores, uploads>>

\* processFile up to the call of s3.upload (lines 91-116).
processFile(userId, file, metadata, rnd) ==
  LET documentId == generateDocumentId(now, rnd)
      fileType == getFileType(file)
      s3Key == s3KeyOf(userId, documentId, file.filename)
  IN /\ frame' = [userId |-> userId,
                  file |-> file,
                  metadata |-> metadata,
                  documentId |-> documentId,
                  fileType |-> fileType,
                  s3Key |-> s3Key,
                  document |-> Undefined,
                  generated |-> <<now, rnd>>]
     /\ response' = NoResponse
     /\ pc' = "s3.upload"
     /\ UNCHANGED <<chatVars, pageVars, processEnv, now, stores, uploads>>

\* exports.handler from its invocation to its first external call
\* (lines 32-74, and processFile up to s3.upload).
handler(e) ==
  /\ pc \in {"idle", "returned"}
  /\ invocations' = invocations + 1
  /\ event' = e
  /\ calls' = <<>>
  /\ before' = stores
  /\ LET formData == e.parsed
         userId == subOf(e.claims)
     IN IF ParseRejects(formData)
        THEN returnEarly(internalServerError(formData.rejected))
        ELSE IF ~Truthy(userId)
        THEN returnEarly(createResponse(401, [error |-> Str(<<"Unauthorized">>)]))
        ELSE IF Len(formData.files) = 0
        THEN returnEarly(
               createResponse(400, [error |-> Str(<<"No file uploaded">>)]))
        ELSE IF formData.files[1].content.length > maxFileSize
        THEN returnEarly(
               createResponse(413,
                 [error |-> Str(<<"File too large, maximum size is 25MB">>)]))
        ELSE IF ~isValidFileType(formData.files[1])
        THEN returnEarly(
               createResponse(400,
                 [error |->
                    Str(<<"Invalid file type, supported formats: PDF, DOCX, TXT">>)]))
        ELSE \E rnd \in RandomSuffixes :
               processFile(userId.chars, formData.files[1],
                           parseMetadata(formData.metadata), rnd)

Call(op, ok) == [op |-> op, ok |-> ok, key |-> frame.s3Key, id |-> frame.documentId]

\* processFile ends, by returning or by throwing: what it leaves behind.
finished(f, cs, r) ==
  [userId |-> f.userId, file |-> f.file, documentId |-> f.documentId,
   s3Key |-> f.s3Key, generated |-> f.generated, document |-> f.document,
   calls |-> cs, statusCode |-> r.statusCode]

\* Mutant of throws: the rejection is not caught, the invocation ends
\* without a response.
throws_uncaught(op, error) ==
  /\ calls' = Append(calls, Call(op, FALSE))
  /\ pc' = "crashed"
  /\ UNCHANGED <<chatVars, pageVars, processEnv, now, stores, invocations, event, frame, before,
                 response, uploads>>

\* An awaited call rejects: processFile throws, the handler's catch answers.
throws(op, error) ==
  /\ calls' = Append(calls, Call(op, FALSE))
  /\ response' = internalServerError(error)
  /\ pc' = "returned"
  /\ uploads' = Append(uploads, finished(frame, calls', response'))
  /\ UNCHANGED <<chatVars, pageVars, processEnv, now, stores, invocations, event, frame, before>>

\* s3.upload(...).promise() resolves (lines 102-116); the document record is
\* built (lines 119-130) and dynamoDB.put is called.
s3UploadResolves ==
  /\ pc = "s3.upload"
  /\ s3Objects' =
       Put(s3Objects, frame.s3Key,
           [Body |-> frame.file.content,
            ContentType |-> frame.file.contentType,
            Metadata |-> s3Metadata(frame.userId, frame.documentId,
                                    frame.file.filename, frame.metadata)])
  /\ calls' = Append(calls, Call("s3.upload", TRUE))
  /\ frame' = [frame EXCEPT !.document =
                 documentOf(frame.userId, frame.file, frame.metadata,
                            frame.documentId, frame.fileType, frame.s3Key, now)]
  /\ pc' = "dynamoDB.put"
  /\ UNCHANGED <<chatVars, pageVars, processEnv, now, documentsTable, processingQueue, invocations, event,
                 response, before, uploads>>

\* Mutant of s3UploadRejects: the rejection is swallowed and processFile
\* goes on to the record write.
s3UploadRejects_swallowed ==
  /\ pc = "s3.upload"
  /\ calls' = Append(calls, Call("s3.upload", FALSE))
  /\ frame' = [frame EXCEPT !.document =
                 documentOf(frame.userId, frame.file, frame.metadata,
                            frame.documentId, frame.fileType, frame.s3Key, now)]
  /\ pc' = "dynamoDB.put"
  /\ UNCHANGED <<chatVars, pageVars, processEnv, now, stores, invocations, event, response, before, uploads>>

s3UploadRejects ==
  /\ pc = "s3.upload"
  /\ throws("s3.upload", S3Error)

\* dynamoDB.put(...).promise() resolves (lines 133-136); sqs.sendMessage is
\* called.
dynamoPutResolves ==
  /\ pc = "dynamoDB.put"
  /\ documentsTable' = Put(documentsTable, frame.document.id.chars, frame.document)
  /\ calls' = Append(calls, Call("dynamoDB.put", TRUE))
  /\ pc' = "sqs.sendMessage"
  /\ UNCHANGED <<chatVars, pageVars, processEnv, now, s3Objects, processingQueue, invocations, event, frame,
                 response, before, uploads>>

\* Mutant of dynamoPutRejects: the uploaded object is deleted before the
\* error is answered.
dynamoPutRejects_cleanup ==
  /\ pc = "dynamoDB.put"
  /\ calls' = Append(calls, Call("dynamoDB.put", FALSE))
  /\ s3Objects' = [k \in DOMAIN s3Objects \ {frame.s3Key} |-> s3Objects[k]]
  /\ response' = internalServerError(DynamoError)
  /\ pc' = "returned"
  /\ uploads' = Append(uploads, finished(frame, calls', response'))
  /\ UNCHANGED <<chatVars, pageVars, processEnv, now, documentsTable, processingQueue, invocations, event,
                 frame, before>>

\* Mutant of dynamoPutRejects: the rejection is swallowed and processFile
\* goes on to the queue send.
dynamoPutRejects_goesOn ==
  /\ pc = "dynamoDB.put"
  /\ calls' = Append(calls, Call("dynamoDB.put", FALSE))
  /\ pc' = "sqs.sendMessage"
  /\ UNCHANGED <<chatVars, pageVars, processEnv, now, stores, invocations, event, frame, response,
                 before, uploads>>

dynamoPutRejects ==
  /\ pc = "dynamoDB.put"
  /\ throws("dynamoDB.put", DynamoError)

\* sqs.sendMessage(...).promise() resolves (lines 139-148); processFile
\* returns (lines 151-159) and the handler answers 201 (line 77).
sqsSendResolves ==
  /\ pc = "sqs.sendMessage"
  /\ processingQueue' =
       Append(processingQueue,
              messageBodyOf(frame.documentId, frame.userId, frame.s3Key,
                            frame.fileType, now))
  /\ calls' = Append(calls, Call("sqs.sendMessage", TRUE))
  /\ response' = createResponse(201, resultOf(frame.document))
  /\ pc' = "returned"
  /\ uploads' = Append(uploads, finished(frame, calls', response'))
  /\ UNCHANGED <<chatVars, pageVars, processEnv, now, s3Objects, documentsTable, invocations, event, frame,
                 before>>

sqsSendRejects ==
  /\ pc = "sqs.sendMessage"
  /\ throws("sqs.sendMessage", SqsError)

\* A millisecond passes.
Tick ==
  /\ now < MaxTicks
  /\ now' = now + 1
  /\ UNCHANGED <<chatVars, uploadVars, pageVars>>

\* The invocations of SpecRepeat: the same file uploaded again by the same
\* user, by another user, and a file whose name holds a "/".
RepeatEvents ==
  { Event(ClaimsOf(<<"u1">>), FormData(<<ReportPdf>>, Undefined)),
    Event(ClaimsOf(<<"u2">>), FormData(<<ReportPdf>>, Undefined)),
    Event(ClaimsOf(<<"u1">>), FormData(<<DataBin>>, Undefined)) }

Next ==
  \/ invocations < MaxInvocations /\ \E e \in Events : handler(e)
  \/ s3UploadResolves
  \/ s3UploadRejects
  \/ dynamoPutResolves
  \/ dynamoPutRejects
  \/ sqsSendResolves
  \/ sqsSendRejects
  \/ Tick

Spec == Init /\ [][Next]_vars

NextRepeat ==
  \/ invocations < MaxRepeats /\ \E e \in RepeatEvents : handler(e)
  \/ s3UploadResolves
  \/ s3UploadRejects
  \/ dynamoPutResolves
  \/ dynamoPutRejects
  \/ sqsSendResolves
  \/ sqsSendRejects
  \/ Tick

SpecRepeat == Init /\ [][NextRepeat]_vars

(***************************************************************************)
(* Uploads under a configured maximum size                                 *)
(***************************************************************************)

MaxSizedUploads == 1

\* Values the deployment may give MAX_FILE_SIZE (infrastructure sets
\* "26214400"); Undefined is the variable left unset.
EnvValues ==
  { Undefined, Str(<<"26214400">>), Str(<<"1000">>), Str(<<"1000", "kb">>),
    Str(<<"abc">>), Str(<<"0">>), Str(<<>>), Str(<<"-5">>) }

SizedPdf(length) == File(<<"sized", ".", "pdf">>, MimePdf, Content("S", length))

SizeLengths == { 0, 1000, 1001, DefaultMaxFileSize, DefaultMaxFileSize + 1 }

\* One file of each length at a boundary, and forms whose second part is
\* too large, of a type not allowed, or both.
SizeEvents ==
  { Event(ClaimsOf(<<"u1">>), FormData(<<SizedPdf(n)>>, Undefined)) :
      n \in SizeLengths }
  \cup
  { Event(ClaimsOf(<<"u1">>), FormData(<<SizedPdf(n), later>>, TitleField)) :
      n \in { 1000, 1001 }, later \in { HugeExe, ReportPdf } }

InitSize == InitState /\ processEnv \in EnvValues

NextSize ==
  \/ invocations < MaxSizedUploads /\ \E e \in SizeEvents : handler(e)
  \/ s3UploadResolves
  \/ s3UploadRejects
  \/ dynamoPutResolves
  \/ dynamoPutRejects
  \/ sqsSendResolves
  \/ sqsSendRejects

SpecSize == InitSize /\ [][NextSize]_vars

----------------------------------------------------------------------------
(* What the claims speak of *)

Returned == pc = "returned"

\* The request was parsed and names a first file.
HasFile(e) == ~ParseRejects(e.parsed) /\ Len(e.parsed.files) > 0

FirstFile(e) == e.parsed.files[1]

Authenticated(e) == Truthy(subOf(e.claims))

Oversized(file) == file.content.length > 25 * 1024 * 1024

ExtensionOf(file) == toLowerCase(SplitPop(file.filename))

\* The allow-list {pdf, docx/doc, txt} of the specification.
InAllowList(file) ==
  \/ file.contentType \in {MimePdf, MimeDocx, MimeText}
  \/ ExtensionOf(file) \in { <<"pdf">>, <<"docx">>, <<"doc">>, <<"txt">> }

\* No blob upload, record write or queue send by the running invocation.
NoSideEffects == calls = <<>> /\ stores = before

\* The object the body of the response encodes.
BodyOf(r) == JsonParse(r.body).fields

Succeeded(cs) == Len(cs) = 3 /\ \A i \in 1..3 : cs[i].ok

\* The call that rejected, if the last one did.
FailedAt(op) ==
  /\ calls # <<>>
  /\ calls[Len(calls)].op = op
  /\ ~calls[Len(calls)].ok

----------------------------------------------------------------------------
(* C1 *)

\* C1: every upload request whose claims carry no subject id is answered 401
\* and causes no blob upload, record write or queue send, whatever the rest
\* of the request is.
C1_Unauthorized401 ==
  (Returned /\ ~Authenticated(event)) =>
    (response.statusCode = 401 /\ NoSideEffects)

----------------------------------------------------------------------------
(* C2 *)

\* C2: an authenticated upload whose first file is larger than the maximum
\* is answered 413, one whose first file is within the maximum but of a
\* disallowed type is answered 400 (the size is validated first), and
\* neither causes a blob upload, a record write or a queue send.
C2_RejectedWithoutWrites ==
  (Returned /\ Authenticated(event) /\ HasFile(event)) =>
    /\ Oversized(FirstFile(event)) =>
         (response.statusCode = 413 /\ NoSideEffects)
    /\ (~Oversized(FirstFile(event)) /\ ~InAllowList(FirstFile(event))) =>
         (response.statusCode = 400 /\ NoSideEffects)

C2_Witness ==
  /\ Returned /\ Authenticated(event) /\ HasFile(event)
  /\ ~Oversized(FirstFile(event)) /\ ~InAllowList(FirstFile(event))
  /\ response.statusCode = 400

----------------------------------------------------------------------------
(* C3 *)

\* C3: an upload passes type validation exactly when its content type or
\* its extension is in the allow-list {pdf, docx/doc, txt}; a .doc file is
\* accepted like a .docx file.
C3_AllowListExact ==
  (Returned /\ Authenticated(event) /\ HasFile(event)
     /\ ~Oversized(FirstFile(event))) =>
    (response.statusCode # 400 <=> InAllowList(FirstFile(event)))

----------------------------------------------------------------------------
(* C4 *)

CallOrder == <<"s3.upload", "dynamoDB.put", "sqs.sendMessage">>

\* C4: in every invocation the calls are the blob upload, then the record
\* write, then the queue send; a call is made only after every earlier one
\* succeeded, and a call that fails is the last one.
C4_WriteOrder ==
  /\ Len(calls) <= 3
  /\ \A i \in 1..Len(calls) :
       /\ calls[i].op = CallOrder[i]
       /\ i < Len(calls) => calls[i].ok
  /\ (calls # <<>> /\ ~calls[Len(calls)].ok) => Returned
  /\ pc = "dynamoDB.put" =>
       (Len(calls) = 1 /\ calls[1].ok /\ frame.s3Key \in DOMAIN s3Objects)
  /\ pc = "sqs.sendMessage" =>
       (Len(calls) = 2 /\ calls[2].ok /\ frame.documentId \in DOMAIN documentsTable)

C4_Witness == Returned /\ FailedAt("s3.upload") /\ Len(calls) = 1

----------------------------------------------------------------------------
(* C5 *)

TheBlobStays ==
  /\ frame.s3Key \in DOMAIN s3Objects
  /\ s3Objects[frame.s3Key].Body = frame.file.content

\* C5: a partial failure is never compensated.  When the record write fails
\* the blob stays, no record and no work item is written, and the answer is
\* 500; when the queue send fails the blob and the record (status
\* "processing") stay, no work item is written, and the answer is 500.
C5_NoCompensation ==
  /\ (Returned /\ FailedAt("dynamoDB.put")) =>
       /\ response.statusCode = 500
       /\ TheBlobStays
       /\ documentsTable = before[2]
       /\ processingQueue = before[3]
  /\ (Returned /\ FailedAt("sqs.sendMessage")) =>
       /\ response.statusCode = 500
       /\ TheBlobStays
       /\ frame.documentId \in DOMAIN documentsTable
       /\ documentsTable[frame.documentId] = frame.document
       /\ frame.document.status = Str(<<"processing">>)
       /\ processingQueue = before[3]

C5_Witness == Returned /\ FailedAt("dynamoDB.put") /\ TheBlobStays

----------------------------------------------------------------------------
(* C6 *)

ClientFields ==
  {"id", "filename", "type", "size", "title", "uploaded", "status"}

\* C6: the answer is 201 exactly when the blob upload, the record write and
\* the queue send all succeeded; the 201 body holds exactly id, filename,
\* type, size, title, uploaded and status, each equal to that field of the
\* record written by the invocation, with status "processing" and type one
\* of pdf, docx, txt.
C6_CreatedBody ==
  Returned =>
    /\ response.statusCode = 201 <=> Succeeded(calls)
    /\ response.statusCode = 201 =>
         /\ DOMAIN BodyOf(response) = ClientFields
         /\ BodyOf(response).status = Str(<<"processing">>)
         /\ BodyOf(response).type \in
              { Str(<<"pdf">>), Str(<<"docx">>), Str(<<"txt">>) }
         /\ frame.documentId \in DOMAIN documentsTable
         /\ \A f \in ClientFields :
              BodyOf(response)[f] = documentsTable[frame.documentId][f]

C6_Witness ==
  /\ Returned /\ response.statusCode = 201
  /\ BodyOf(response).type = Str(<<"docx">>)

----------------------------------------------------------------------------
(* C7 *)

MetadataField(e) == e.parsed.metadata

\* The upload passes the handler's validation.
PassesValidation(e) ==
  /\ Authenticated(e) /\ HasFile(e) /\ ~Oversized(FirstFile(e))
  /\ \/ FirstFile(e).contentType \in {MimePdf, MimeDocx, MimeText}
     \/ ExtensionOf(FirstFile(e)) \in { <<"pdf">>, <<"docx">>, <<"txt">> }

HasTitle(field) ==
  /\ IsJsonText(field)
  /\ field.json.type = "object"
  /\ "title" \in DOMAIN field.json.fields

TitleOf(field) == field.json.fields.title

NotJson(field) == IsString(field) /\ ~IsJsonText(field)

\* An invalid metadata field is swallowed: no client error, 500 only when a
\* call rejected, and on 201 three writes, an empty stored metadata map and
\* the filename as title.
InvalidMetadataSwallowed ==
  (Returned /\ PassesValidation(event) /\ NotJson(MetadataField(event))) =>
    /\ response.statusCode \in {201, 500}
    /\ response.statusCode = 500 => (calls # <<>> /\ ~calls[Len(calls)].ok)
    /\ response.statusCode = 201 =>
         /\ Succeeded(calls)
         /\ frame.s3Key \in DOMAIN s3Objects
         /\ Len(processingQueue) = Len(before[3]) + 1
         /\ documentsTable[frame.documentId].metadata = Obj(EmptyObject)
         /\ documentsTable[frame.documentId].title = Str(frame.file.filename)
         /\ BodyOf(response).title = Str(frame.file.filename)

\* The claim as stated: any title of a JSON object is returned and stored.
C7_AnyTitleReturned ==
  /\ (Returned /\ response.statusCode = 201 /\ HasTitle(MetadataField(event))) =>
       /\ BodyOf(response).title = TitleOf(MetadataField(event))
       /\ documentsTable[frame.documentId].title = TitleOf(MetadataField(event))
  /\ InvalidMetadataSwallowed

\* C7 (amended): for every otherwise valid upload whose metadata field is a
\* JSON object with a non-empty (truthy) title, the returned and the stored
\* title equal that title; an empty title falls back to the filename; a
\* metadata field that is not valid JSON is swallowed, the request still
\* succeeds with 201 and all three writes, the stored metadata map is empty
\* and the title is the filename.
C7_TruthyTitleReturned ==
  /\ (Returned /\ response.statusCode = 201 /\ HasTitle(MetadataField(event))) =>
       LET expected == IF Truthy(TitleOf(MetadataField(event)))
                       THEN TitleOf(MetadataField(event))
                       ELSE Str(frame.file.filename)
       IN /\ BodyOf(response).title = expected
          /\ documentsTable[frame.documentId].title = expected
  /\ InvalidMetadataSwallowed

C7_Witness ==
  /\ Returned /\ response.statusCode = 201
  /\ MetadataField(event) = TitleField
  /\ BodyOf(response).title = Str(<<"Q1 Report">>)

----------------------------------------------------------------------------
(* C8 *)

HandlerKeys == {"userId", "documentId", "originalName"}

\* C8: the metadata block of every uploaded blob consists of the user id,
\* the document id and the original filename plus one entry per custom
\* metadata key, a string value unchanged and any other value as its JSON
\* encoding, so that every value is a string.
C8_BlobMetadataBlock ==
  (calls # <<>> /\ calls[1].ok) =>
    LET block == s3Objects[frame.s3Key].Metadata
    IN /\ DOMAIN block = HandlerKeys \cup DOMAIN frame.metadata
       /\ block.userId = Str(frame.userId)
       /\ block.documentId = Str(frame.documentId)
       /\ block.originalName = Str(frame.file.filename)
       /\ \A k \in DOMAIN frame.metadata \ HandlerKeys :
            block[k] = IF IsString(frame.metadata[k]) THEN frame.metadata[k]
                       ELSE JsonText(frame.metadata[k])
       /\ \A k \in DOMAIN block : IsString(block[k])

----------------------------------------------------------------------------
(* C9 *)

Records == {documentsTable[id] : id \in DOMAIN documentsTable}

\* C9: the storage key of every document record is userId/documentId/filename
\* of that record, it is the key under which the blob of that document was
\* uploaded, and two records with different document ids never have the same
\* storage key.
C9_StorageKey ==
  /\ \A r \in Records :
       /\ r.s3Key.chars =
            r.userId.chars \o <<"/">> \o r.id.chars \o <<"/">> \o r.filename.chars
       /\ r.s3Key.chars \in DOMAIN s3Objects
       /\ s3Objects[r.s3Key.chars].Body.length = r.size.n
  /\ \A r1, r2 \in Records : r1.id # r2.id => r1.s3Key # r2.s3Key
  /\ pc = "sqs.sendMessage" =>
       /\ calls[1].key = frame.document.s3Key.chars
       /\ documentsTable[frame.documentId] = frame.document

C9_Witness ==
  \E r1, r2 \in Records :
    /\ r1.id # r2.id
    /\ r1.userId = r2.userId
    /\ r1.filename = r2.filename

----------------------------------------------------------------------------
(* C10 *)

SameUpload(a, b) ==
  /\ a.userId = b.userId
  /\ a.file.filename = b.file.filename
  /\ a.file.content = b.file.content

\* The earlier upload's blob and record are still those it wrote.
NotOverwritten(a) ==
  /\ a.calls[1].ok =>
       /\ a.s3Key \in DOMAIN s3Objects
       /\ s3Objects[a.s3Key].Body = a.file.content
  /\ (Len(a.calls) >= 2 /\ a.calls[2].ok) =>
       /\ a.documentId \in DOMAIN documentsTable
       /\ documentsTable[a.documentId] = a.document

----------------------------------------------------------------------------
(* The Chat Handler: values and pure functions *)

\* Number of invocations of the Chat Handler in a behaviour of SpecChat.
MaxChats == 1

\* Number of invocations of the Chat Handler in a behaviour of SpecTurns.
MaxTurns == 2

\* [a, b, ...]
Arr(items) == [type |-> "array", items |-> items]

IsArray(v) == v.type = "array"

\* { role, content }: one turn of a conversation.
Turn(role, content) == Obj([role |-> Str(<<role>>), content |-> content])

\* The text of a document chunk, one character per atom.
Chars(n) == [i \in 1..n |-> "x"]

\* s.substring(0, end)
substring(s, end) == SubSeq(s, 1, IF end < Len(s) THEN end ELSE Len(s))

excerptLength == 200

Ellipsis == <<".", ".", ".">>

\* Mutant of excerptOf: the chunk is cut and nothing is added.
excerptOf_noEllipsis(content) == substring(content, excerptLength)

\* doc.content.substring(0, 200) + '...'
excerptOf(content) == substring(content, excerptLength) \o Ellipsis

\* Mutant of locationOf: the label is built whenever the field is defined.
locationOf_whenDefined(pageNumber) ==
  IF pageNumber # Undefined
  THEN Str(<<"Page ">> \o NumberToString(pageNumber.n))
  ELSE Str(<<>>)

\* doc.metadata.pageNumber ? `Page ${doc.metadata.pageNumber}` : ''
locationOf(pageNumber) ==
  IF Truthy(pageNumber)
  THEN Str(<<"Page ">> \o NumberToString(pageNumber.n))
  ELSE Str(<<>>)

\* One element of response.data.value as searchRelevantDocuments returns it.
mapDocument(doc) ==
  [id |-> doc.id,
   content |-> doc.content,
   title |-> doc.title,
   source |-> doc.source,
   metadata |-> [pageNumber |-> doc.pageNumber]]

mapDocuments(value) == [i \in 1..Len(value) |-> mapDocument(value[i])]

\* doc.content.substring throws a TypeError when the chunk has no content.
sourcesThrow(documents) ==
  \E i \in 1..Len(documents) : ~IsString(documents[i].content)

\* What sources.push receives for one document.
sourceOf(doc) ==
  Obj([documentId |-> doc.id,
       title |-> doc.title,
       location |-> locationOf(doc.metadata.pageNumber),
       excerpt |-> Str(excerptOf(doc.content.chars))])

\* The sources array after the forEach.
sourcesOf(documents) == [i \in 1..Len(documents) |-> sourceOf(documents[i])]

\* `[Document ${i + 1}] ${doc.title}\n${doc.content}\n\n`, i counted from 0.
documentBlock(doc, i) ==
  <<"[Document ">> \o NumberToString(i + 1) \o <<"] ">> \o doc.title.chars
    \o <<"\n">> \o doc.content.chars \o <<"\n\n">>

RECURSIVE blocksFrom(_, _)
blocksFrom(documents, i) ==
  IF i >= Len(documents)
  THEN <<>>
  ELSE documentBlock(documents[i + 1], i) \o blocksFrom(documents, i + 1)

\* The context string after the forEach.
contextOf(documents) ==
  IF Len(documents) > 0
  THEN <<"Information from knowledge base:\n\n">> \o blocksFrom(documents, 0)
  ELSE <<>>

Instruction == <<"You are an AI assistant ... by referring to the document titles.\n\n">>

systemMessageOf(documents) ==
  Turn("system", Str(Instruction \o contextOf(documents)))

\* [systemMessage, ...history]
messagesOf(documents, history) == <<systemMessageOf(documents)>> \o history

Apology ==
  <<"I apologize, but I encountered an error generating a response. Please try again later.">>

\* What the catch block of generateResponse returns.
apologyResponse == [message |-> Str(Apology), sources |-> <<>>]

\* Mutant of generateConversationId: the literal prefix is left out.
generateConversationId_noPrefix(t, rnd) == NumberToString(t) \o <<"_", rnd>>

\* `conv_${Date.now()}_${Math.random().toString(36).substring(2, 10)}`
generateConversationId(t, rnd) ==
  <<"conv", "_">> \o NumberToString(t) \o <<"_", rnd>>

chatCreateResponse(statusCode, body) ==
  [statusCode |-> statusCode,
   headers |-> responseHeaders,
   body |-> JsonStringify(Obj(body))]

\* The Item of dynamoDB.put in saveConversation.
conversationItem(userId, conversationId, history, t) ==
  [userId |-> Str(userId),
   conversationId |-> conversationId,
   history |-> history,
   timestamp |-> Str(toISOString(t))]

----------------------------------------------------------------------------
(* The Chat Handler: requests and what the two services answer *)

\* JSON.stringify({ message, conversationId, history }) as a client sends it.
Body(message, conversationId, history) ==
  JsonStringify(Obj([message |-> message,
                     conversationId |-> conversationId,
                     history |-> history]))

NotJsonBody == Str(<<"{message:">>)

Hello == Str(<<"hello">>)

Earlier ==
  <<Turn("user", Str(<<"hi">>)), Turn("assistant", Str(<<"Hi, how can I help?">>))>>

ChatEvent(claims, body) == [claims |-> claims, body |-> body]

ChatEvents ==
  {ChatEvent(c, b) : c \in {Undefined, ClaimsOf(<<"u1">>)},
                     b \in {NotJsonBody, Null}}
  \cup {ChatEvent(c, Body(m, Undefined, Undefined)) :
          c \in {Undefined, ClaimsOf(<<"u1">>)}, m \in {Undefined, Str(<<>>)}}
  \cup {ChatEvent(ClaimsOf(<<"u1">>), Body(Str(<<>>), Str(<<"mine">>), Arr(Earlier)))}
  \cup {ChatEvent(c, Body(Hello, Str(<<"mine">>), Arr(Earlier))) :
          c \in NoSubClaims}
  \cup {ChatEvent(ClaimsOf(<<"u1">>), Body(Hello, Undefined, Undefined)),
        ChatEvent(ClaimsOf(<<"u1">>), Body(Hello, Str(<<>>), Arr(<<>>))),
        ChatEvent(ClaimsOf(<<"u1">>), Body(Hello, Str(<<"mine">>), Arr(Earlier))),
        ChatEvent(ClaimsOf(<<"u2">>), Body(Hello, Undefined, Arr(Earlier))),
        ChatEvent(ClaimsOf(<<"u1">>), Body(Hello, Undefined, Null)),
        ChatEvent(ClaimsOf(<<"u1">>), JsonText(Null))}

\* Math.random().toString(36).substring(2, 10) of the chat invocations.
ChatSuffixes == { "x7f2m9qa" }

\* Elements of response.data.value of the Search Service.
Found(id, title, length, pageNumber) ==
  [id |-> Str(<<id>>),
   title |-> Str(<<title>>),
   content |-> IF length < 0 THEN Undefined ELSE Str(Chars(length)),
   source |-> Str(<<id, ".", "pdf">>),
   pageNumber |-> pageNumber]

LongChunk == Found("doc1", "Report", 250, Num(3))

ShortChunk == Found("doc2", "Memo", 3, Undefined)

EdgeChunk == Found("doc3", "Cover", 200, Num(0))

NoContentChunk == Found("doc4", "Scan", -1, Num(1))

SearchValues ==
  { <<>>, <<ShortChunk, LongChunk>>, <<LongChunk, EdgeChunk, ShortChunk>>,
    <<LongChunk, NoContentChunk>> }

\* response.data.choices[0].message.content of the Generation Service.
Completions == { Str(<<"The report covers the first quarter.">>) }

----------------------------------------------------------------------------
(* The Chat Handler *)

\* JSON.parse(event.body): a body of null is read as the text "null".
parseBody(body) == IF body = Null THEN Null ELSE JsonParse(body)

parseBodyThrows(body) == body # Null /\ JsonParseThrows(body)

SyntaxError == Error(<<"Unexpected token m in JSON at position 1">>)

DestructureError == Error(<<"Cannot destructure property 'message' of 'body' as it is null.">>)

LengthError == Error(<<"Cannot read properties of null (reading 'length')">>)

\* The catch block of exports.handler (lines 56-59).
chatInternalServerError(error) ==
  chatCreateResponse(500, [error |-> Str(<<"Internal server error">>),
                           details |-> Str(error.message)])

\* const { message, conversationId, history = [] } = body
historyOf(body) ==
  IF Get(body.fields, "history") = Undefined
  THEN Arr(<<>>)
  ELSE Get(body.fields, "history")

\* An invocation that answered without entering processConversation, or
\* whose processConversation threw before its first call.
chatReturnEarly(e, r) ==
  [pc |-> "returned", event |-> e, frame |-> NoFrame, calls |-> <<>>,
   response |-> r]

\* conversationId || generateConversationId()
newConversationIdOf(conversationId, t, rnd) ==
  IF Truthy(conversationId)
  THEN conversationId
  ELSE Str(generateConversationId(t, rnd))

\* processConversation up to the call of the Search Service (lines 70-84).
processConversation(e, userId, message, conversationId, history, rnd) ==
  IF history.type = "null"
  THEN chatReturnEarly(e, chatInternalServerError(LengthError))
  ELSE [pc |-> "search",
        event |-> e,
        frame |->
          [userId |-> userId,
           message |-> message,
           newConversationId |-> newConversationIdOf(conversationId, now, rnd),
           generated |-> IF Truthy(conversationId) THEN <<>> ELSE <<now, rnd>>,
           conversationHistory |->
             (IF Len(history.items) > 0 THEN history.items ELSE <<>>)
               \o <<Turn("user", message)>>,
           relevantDocs |-> <<>>,
           response |-> Undefined,
           item |-> Undefined],
        calls |-> <<>>,
        response |-> NoResponse]

\* Mutant of invoke: the caller is checked before the message.
invoke_authFirst(e, rnd) ==
  IF parseBodyThrows(e.body)
  THEN chatReturnEarly(e, chatInternalServerError(SyntaxError))
  ELSE IF parseBody(e.body).type # "object"
  THEN chatReturnEarly(e, chatInternalServerError(DestructureError))
  ELSE LET body == parseBody(e.body)
           message == Get(body.fields, "message")
           userId == subOf(e.claims)
       IN IF ~Truthy(userId)
          THEN chatReturnEarly(e,
                 chatCreateResponse(401, [error |-> Str(<<"Unauthorized">>)]))
          ELSE IF ~Truthy(message)
          THEN chatReturnEarly(e,
                 chatCreateResponse(400, [error |-> Str(<<"Message is required">>)]))
          ELSE processConversation(e, userId.chars, message,
                 Get(body.fields, "conversationId"), historyOf(body), rnd)

\* exports.handler from its invocation to its first external call
\* (lines 32-52): the invocation as it stands then.
invoke(e, rnd) ==
  IF parseBodyThrows(e.body)
  THEN chatReturnEarly(e, chatInternalServerError(SyntaxError))
  ELSE IF parseBody(e.body).type # "object"
  THEN chatReturnEarly(e, chatInternalServerError(DestructureError))
  ELSE LET body == parseBody(e.body)
           message == Get(body.fields, "message")
           userId == subOf(e.claims)
       IN IF ~Truthy(message)
          THEN chatReturnEarly(e,
                 chatCreateResponse(400, [error |-> Str(<<"Message is required">>)]))
          ELSE IF ~Truthy(userId)
          THEN chatReturnEarly(e,
                 chatCreateResponse(401, [error |-> Str(<<"Unauthorized">>)]))
          ELSE processConversation(e, userId.chars, message,
                 Get(body.fields, "conversationId"), historyOf(body), rnd)

chatHandler(e, rnd) ==
  /\ chat' = Append(chat, invoke(e, rnd))
  /\ UNCHANGED <<conversationsTable, uploadVars, pageVars, now>>

\* One external call of an invocation, as the log keeps it.
ChatCall(op, ok, sent) == [op |-> op, ok |-> ok, sent |-> sent]

\* Mutant of generated: the assistant turn is not pushed before the save.
generated_userTurnOnly(c, cs, answer) ==
  LET f == c.frame
  IN [c EXCEPT
        !.pc = "save",
        !.calls = cs,
        !.frame = [f EXCEPT
           !.response = answer,
           !.item = conversationItem(f.userId, f.newConversationId,
                                     f.conversationHistory, now)]]

\* generateResponse has its answer (lines 87-96): the assistant turn is
\* pushed and saveConversation calls dynamoDB.put.
generated(c, cs, answer) ==
  LET f == c.frame
      history == Append(f.conversationHistory,
                        Turn("assistant", answer.message))
  IN [c EXCEPT
        !.pc = "save",
        !.calls = cs,
        !.frame = [f EXCEPT
           !.response = answer,
           !.conversationHistory = history,
           !.item = conversationItem(f.userId, f.newConversationId, history, now)]]

\* searchRelevantDocuments has returned documents (line 84); generateResponse
\* runs up to its call of the Generation Service (lines 158-204), or into
\* its catch block when building the sources throws.
searched(c, ok, documents) ==
  LET f == c.frame
      cs == Append(c.calls, ChatCall("search", ok, f.message))
      d == [c EXCEPT !.frame = [f EXCEPT !.relevantDocs = documents]]
  IN IF sourcesThrow(documents)
     THEN generated(d, cs, apologyResponse)
     ELSE [d EXCEPT !.pc = "generate", !.calls = cs]

Waiting(i, at) == i \in DOMAIN chat /\ chat[i].pc = at

searchResolves(i, value) ==
  /\ Waiting(i, "search")
  /\ chat' = [chat EXCEPT ![i] = searched(chat[i], TRUE, mapDocuments(value))]
  /\ UNCHANGED <<conversationsTable, uploadVars, pageVars, now>>

\* Mutant of searchRejects: the rejection reaches the handler's catch block.
searchRejects_thrown(i) ==
  /\ Waiting(i, "search")
  /\ chat' = [chat EXCEPT ![i] =
       [chat[i] EXCEPT
          !.pc = "returned",
          !.calls = Append(chat[i].calls,
                           ChatCall("search", FALSE, chat[i].frame.message)),
          !.response = chatInternalServerError(Error(<<"Request failed">>))]]
  /\ UNCHANGED <<conversationsTable, uploadVars, pageVars, now>>

\* The catch block of searchRelevantDocuments (lines 144-147).
searchRejects(i) ==
  /\ Waiting(i, "search")
  /\ chat' = [chat EXCEPT ![i] = searched(chat[i], FALSE, <<>>)]
  /\ UNCHANGED <<conversationsTable, uploadVars, pageVars, now>>

\* What generateResponse sends to the Generation Service.
sentMessages(c) == messagesOf(c.frame.relevantDocs, c.frame.conversationHistory)

generateResolves(i, content) ==
  /\ Waiting(i, "generate")
  /\ chat' = [chat EXCEPT ![i] =
       generated(chat[i],
                 Append(chat[i].calls,
                        ChatCall("generate", TRUE, sentMessages(chat[i]))),
                 [message |-> content,
                  sources |-> sourcesOf(chat[i].frame.relevantDocs)])]
  /\ UNCHANGED <<conversationsTable, uploadVars, pageVars, now>>

\* Mutant of generateRejects: the sources built before the call are kept.
generateRejects_keepsSources(i) ==
  /\ Waiting(i, "generate")
  /\ chat' = [chat EXCEPT ![i] =
       generated(chat[i],
                 Append(chat[i].calls,
                        ChatCall("generate", FALSE, sentMessages(chat[i]))),
                 [message |-> Str(Apology),
                  sources |-> sourcesOf(chat[i].frame.relevantDocs)])]
  /\ UNCHANGED <<conversationsTable, uploadVars, pageVars, now>>

\* The catch block of generateResponse (lines 215-221).
generateRejects(i) ==
  /\ Waiting(i, "generate")
  /\ chat' = [chat EXCEPT ![i] =
       generated(chat[i],
                 Append(chat[i].calls,
                        ChatCall("generate", FALSE, sentMessages(chat[i]))),
                 apologyResponse)]
  /\ UNCHANGED <<conversationsTable, uploadVars, pageVars, now>>

\* What processConversation returns (lines 99-103).
resultOfChat(f) ==
  [message |-> f.response.message,
   conversationId |-> f.newConversationId,
   sources |-> Arr(f.response.sources)]

\* saveConversation is over (line 96) and the handler answers (line 55).
saved(c, ok) ==
  [c EXCEPT !.pc = "returned",
            !.calls = Append(c.calls, ChatCall("save", ok, c.frame.item)),
            !.response = chatCreateResponse(200, resultOfChat(c.frame))]

ConversationKey(item) == <<item.userId.chars, item.conversationId.chars>>

\* Mutant of saveResolves: the two new turns are appended to the stored list.
saveResolves_appends(i) ==
  /\ Waiting(i, "save")
  /\ LET item == chat[i].frame.item
         key == ConversationKey(item)
         n == Len(item.history)
     IN conversationsTable' =
          Put(conversationsTable, key,
              IF key \in DOMAIN conversationsTable
              THEN [item EXCEPT !.history =
                      conversationsTable[key].history
                        \o SubSeq(item.history, n - 1, n)]
              ELSE item)
  /\ chat' = [chat EXCEPT ![i] = saved(chat[i], TRUE)]
  /\ UNCHANGED <<uploadVars, pageVars, now>>

saveResolves(i) ==
  /\ Waiting(i, "save")
  /\ conversationsTable' =
       Put(conversationsTable, ConversationKey(chat[i].frame.item),
           chat[i].frame.item)
  /\ chat' = [chat EXCEPT ![i] = saved(chat[i], TRUE)]
  /\ UNCHANGED <<uploadVars, pageVars, now>>

\* Mutant of saveRejects: the rejection reaches the handler's catch block.
saveRejects_thrown(i) ==
  /\ Waiting(i, "save")
  /\ chat' = [chat EXCEPT ![i] =
       [chat[i] EXCEPT
          !.pc = "returned",
          !.calls = Append(chat[i].calls,
                           ChatCall("save", FALSE, chat[i].frame.item)),
          !.response = chatInternalServerError(DynamoError)]]
  /\ UNCHANGED <<conversationsTable, uploadVars, pageVars, now>>

\* Mutant of saveRejects: a rejected put is tried a second time.
saveRejects_retried(i) ==
  /\ Waiting(i, "save")
  /\ chat' = [chat EXCEPT ![i] =
       IF \E k \in 1..Len(chat[i].calls) : chat[i].calls[k].op = "save"
       THEN saved(chat[i], FALSE)
       ELSE [chat[i] EXCEPT
               !.calls = Append(chat[i].calls,
                                ChatCall("save", FALSE, chat[i].frame.item))]]
  /\ UNCHANGED <<conversationsTable, uploadVars, pageVars, now>>

\* The catch block of saveConversation (lines 242-245).
saveRejects(i) ==
  /\ Waiting(i, "save")
  /\ chat' = [chat EXCEPT ![i] = saved(chat[i], FALSE)]
  /\ UNCHANGED <<conversationsTable, uploadVars, pageVars, now>>

\* No invocation is running.
ChatIdle == \A i \in DOMAIN chat : chat[i].pc = "returned"

\* One chat request at a time, over every kind of request.
NextChat ==
  \/ /\ Len(chat) < MaxChats
     /\ ChatIdle
     /\ \E e \in ChatEvents, rnd \in ChatSuffixes : chatHandler(e, rnd)
  \/ \E i \in DOMAIN chat, value \in SearchValues : searchResolves(i, value)
  \/ \E i \in DOMAIN chat : searchRejects(i)
  \/ \E i \in DOMAIN chat, content \in Completions : generateResolves(i, content)
  \/ \E i \in DOMAIN chat : generateRejects(i)
  \/ \E i \in DOMAIN chat : saveResolves(i)
  \/ \E i \in DOMAIN chat : saveRejects(i)
  \/ Tick

SpecChat == Init /\ [][NextChat]_vars

----------------------------------------------------------------------------
(* Several turns of one conversation *)

Completion == CHOOSE content \in Completions : TRUE

\* What a client holds after a first turn "hello" that was answered.
FirstTurn == <<Turn("user", Hello), Turn("assistant", Completion)>>

\* The turns of SpecTurns: user u1 on the conversation "mine", sending no
\* history, the history of the first turn, or another history.
TurnEvents ==
  { ChatEvent(ClaimsOf(<<"u1">>), Body(Hello, Str(<<"mine">>), h)) :
      h \in {Undefined, Arr(FirstTurn), Arr(Earlier)} }

\* One chat request at a time, all on one conversation; the search finds
\* nothing or fails.
NextTurns ==
  \/ /\ Len(chat) < MaxTurns
     /\ ChatIdle
     /\ \E e \in TurnEvents, rnd \in ChatSuffixes : chatHandler(e, rnd)
  \/ \E i \in DOMAIN chat : searchResolves(i, <<>>)
  \/ \E i \in DOMAIN chat : searchRejects(i)
  \/ \E i \in DOMAIN chat, content \in Completions : generateResolves(i, content)
  \/ \E i \in DOMAIN chat : generateRejects(i)
  \/ \E i \in DOMAIN chat : saveResolves(i)
  \/ \E i \in DOMAIN chat : saveRejects(i)
  \/ Tick

SpecTurns == Init /\ [][NextTurns]_vars

----------------------------------------------------------------------------
(* What the chat claims speak of *)

ChatReturned(i) == i \in DOMAIN chat /\ chat[i].pc = "returned"

\* The request body is the text of a JSON object.
BodyParses(e) == IsJsonText(e.body) /\ JsonParse(e.body).type = "object"

Field(e, k) == Get(JsonParse(e.body).fields, k)

NoMessage(e) == Field(e, "message") \in {Undefined, Str(<<>>)}

HasSub(e) == e.claims # Undefined /\ "sub" \in DOMAIN e.claims.fields

\* The request passes the input validation and the authorization check.
Validated(e) ==
  /\ BodyParses(e)
  /\ ~NoMessage(e)
  /\ HasSub(e)
  /\ Field(e, "history") = Undefined \/ IsArray(Field(e, "history"))

ChatStatus(i) == chat[i].response.statusCode

ChatAnswer(i) == JsonParse(chat[i].response.body).fields

Called(i, op) == \E k \in 1..Len(chat[i].calls) : chat[i].calls[k].op = op

CallOf(i, op) ==
  chat[i].calls[CHOOSE k \in 1..Len(chat[i].calls) : chat[i].calls[k].op = op]

\* C11: every chat request whose body is a JSON object with a missing or
\* empty message is answered 400, and the invocation calls neither the Search
\* Service nor the Generation Service nor the conversation save.
C11_MessageRequired ==
  \A i \in DOMAIN chat :
    BodyParses(chat[i].event) /\ NoMessage(chat[i].event) =>
      /\ ChatReturned(i)
      /\ ChatStatus(i) = 400
      /\ chat[i].calls = <<>>

C11_Witness ==
  \E i \in DOMAIN chat :
    /\ BodyParses(chat[i].event)
    /\ Field(chat[i].event, "message") = Str(<<>>)
    /\ ~HasSub(chat[i].event)
    /\ ChatStatus(i) = 400

\* C12: every chat request whose claims carry no subject id is answered 401
\* and makes no search, generation or save call, whatever its body is.
C12_Unauthorized401 ==
  \A i \in DOMAIN chat :
    ~HasSub(chat[i].event) =>
      /\ ChatReturned(i)
      /\ ChatStatus(i) = 401
      /\ chat[i].calls = <<>>

\* The conversation id the request supplies, Undefined when it supplies
\* none (the field is missing or the empty string).
SuppliedId(e) ==
  IF Field(e, "conversationId") = Str(<<>>)
  THEN Undefined
  ELSE Field(e, "conversationId")

\* conv_<milliseconds>_<random suffix>
IsMintedId(id) ==
  /\ Len(id) = 5
  /\ id[1] = "conv" /\ id[2] = "_" /\ id[4] = "_"
  /\ id[3] \in {ToString(t) : t \in 0..now}
  /\ id[5] \in ChatSuffixes

SaveOk(i) == Called(i, "save") /\ CallOf(i, "save").ok

PriorTurns(e) ==
  IF Field(e, "history") = Undefined THEN <<>> ELSE Field(e, "history").items

GenerationFailed(i) == Called(i, "generate") /\ ~CallOf(i, "generate").ok

SearchFailed(i) == Called(i, "search") /\ ~CallOf(i, "search").ok

\* The documents the search of invocation i returned to processConversation.
Snippets(i) == chat[i].frame.relevantDocs

\* C15: when the Search Service call fails the search yields no match: the
\* Generation Service is still called, with an instruction that carries no
\* document context, the conversation is still saved, and the answer is 200
\* with an empty sources list.
C15_SearchFailureDegrades ==
  \A i \in DOMAIN chat :
    ChatReturned(i) /\ SearchFailed(i) =>
      /\ Snippets(i) = <<>>
      /\ Called(i, "generate")
      /\ CallOf(i, "generate").sent[1] =
           Obj([role |-> Str(<<"system">>), content |-> Str(Instruction)])
      /\ Called(i, "save")
      /\ ChatStatus(i) = 200
      /\ ChatAnswer(i).sources = Arr(<<>>)

C15_Witness ==
  \E i \in DOMAIN chat :
    /\ ChatReturned(i) /\ SearchFailed(i) /\ SaveOk(i)
    /\ Called(i, "generate") /\ CallOf(i, "generate").ok
    /\ ChatStatus(i) = 200

\* C16: when the Generation Service call fails the answer is still 200, its
\* message is the fixed apology and its sources list is empty, also when the
\* search returned matches.
C16_GenerationFailureApology ==
  \A i \in DOMAIN chat :
    ChatReturned(i) /\ GenerationFailed(i) =>
      /\ ChatStatus(i) = 200
      /\ ChatAnswer(i).message =
           Str(<<"I apologize, but I encountered an error generating a response. Please try again later.">>)
      /\ ChatAnswer(i).sources = Arr(<<>>)
      /\ DOMAIN ChatAnswer(i) = {"message", "conversationId", "sources"}

C16_Witness ==
  \E i \in DOMAIN chat :
    /\ ChatReturned(i) /\ GenerationFailed(i)
    /\ Len(Snippets(i)) > 0
    /\ ChatStatus(i) = 200

GenerationSucceeded(i) == Called(i, "generate") /\ CallOf(i, "generate").ok

\* The snippet carries a page number.
HasPageNumber(doc) == doc.metadata.pageNumber.type = "number"

\* The text of the system instruction sent to the Generation Service.
InstructionSent(i) == CallOf(i, "generate").sent[1].fields.content.chars

\* Where "[Document " opens a tag in the text s.
TagPositions(s) == {p \in 1..Len(s) : s[p] = "[Document "}

\* The k-th tag of s reads "[Document k] " and is followed by the title.
TaggedAs(s, k, title) ==
  \E p \in TagPositions(s) :
    /\ Cardinality({q \in TagPositions(s) : q <= p}) = k
    /\ SubSeq(s, p, p + 2) = <<"[Document ", ToString(k), "] ">>
    /\ SubSeq(s, p + 3, p + 2 + Len(title)) = title

\* One citation per retrieved snippet, in retrieval order, with the snippet's
\* document id and title and the location "Page N" when the snippet is paged
\* and "" otherwise; the k-th snippet is tagged [Document k], counted from 1,
\* in the system instruction.
CitationsFollowSnippets(i, Paged(_)) ==
  LET docs == Snippets(i)
      sources == ChatAnswer(i).sources.items
  IN /\ Len(sources) = Len(docs)
     /\ Cardinality(TagPositions(InstructionSent(i))) = Len(docs)
     /\ \A k \in 1..Len(docs) :
          /\ sources[k].fields.documentId = docs[k].id
          /\ sources[k].fields.title = docs[k].title
          /\ sources[k].fields.location =
               IF Paged(docs[k])
               THEN Str(<<"Page ", ToString(docs[k].metadata.pageNumber.n)>>)
               ELSE Str(<<>>)
          /\ TaggedAs(InstructionSent(i), k, docs[k].title.chars)

HasNonZeroPageNumber(doc) ==
  HasPageNumber(doc) /\ doc.metadata.pageNumber.n # 0

\* C18 (as stated): when the generation call succeeds the sources list holds
\* one citation per retrieved snippet, in retrieval order, with the snippet's
\* document id and title and the location "Page N" when the snippet has a
\* page number and "" otherwise; the k-th snippet is tagged [Document k].
C18_CitationsFollowSnippets ==
  \A i \in DOMAIN chat :
    ChatReturned(i) /\ GenerationSucceeded(i) =>
      CitationsFollowSnippets(i, HasPageNumber)

\* C18 (amended): the same, with the location "Page N" when the snippet has
\* a page number other than 0, and "" when it has none or its page number
\* is 0.
C18_CitationsNonZeroPage ==
  \A i \in DOMAIN chat :
    ChatReturned(i) /\ GenerationSucceeded(i) =>
      CitationsFollowSnippets(i, HasNonZeroPageNumber)

C18_Witness ==
  \E i \in DOMAIN chat :
    /\ ChatReturned(i) /\ GenerationSucceeded(i)
    /\ Len(Snippets(i)) = 3
    /\ ChatAnswer(i).sources.items[1].fields.location = Str(<<"Page ", "3">>)
    /\ Snippets(i)[2].metadata.pageNumber = Num(0)
    /\ ChatAnswer(i).sources.items[3].fields.location = Str(<<>>)

\* The excerpts of the citations invocation i returned.
Excerpts(i) ==
  {ChatAnswer(i).sources.items[k].fields.excerpt.chars :
     k \in 1..Len(ChatAnswer(i).sources.items)}

\* C19 (as stated): the excerpt of every citation is 200 characters long.
C19_ExcerptIs200 ==
  \A i \in DOMAIN chat :
    ChatReturned(i) /\ ChatStatus(i) = 200 =>
      \A x \in Excerpts(i) : Len(x) = 200

\* C19 (amended): the excerpt of every citation is the first 200 characters
\* of the snippet's content (all of it when it is shorter) followed by
\* "...": its length is the smaller of 200 and the content's length, plus 3,
\* so at most 203.
C19_ExcerptIsPrefixAndDots ==
  \A i \in DOMAIN chat :
    ChatReturned(i) /\ ChatStatus(i) = 200 =>
      \A k \in 1..Len(ChatAnswer(i).sources.items) :
        LET x == ChatAnswer(i).sources.items[k].fields.excerpt.chars
            content == Snippets(i)[k].content.chars
            n == IF Len(content) < 200 THEN Len(content) ELSE 200
        IN /\ Len(x) = n + 3
           /\ Len(x) <= 203
           /\ SubSeq(x, 1, n) = SubSeq(content, 1, n)
           /\ SubSeq(x, n + 1, n + 3) = <<".", ".", ".">>

C19_Witness ==
  \E i \in DOMAIN chat :
    /\ ChatReturned(i) /\ ChatStatus(i) = 200
    /\ \E x \in Excerpts(i) : Len(x) = 203
    /\ \E x \in Excerpts(i) : Len(x) = 6

\* Invocation i ends in this step: its save is over and the handler answers.
TurnEnds(i) == chat[i].pc = "save" /\ chat'[i].pc = "returned"

\* The user turn and the assistant turn invocation i adds.
NewTurns(i) ==
  <<Turn("user", Field(chat[i].event, "message")),
    Turn("assistant", chat[i].frame.response.message)>>

KeyOf(i) == ConversationKey(chat[i].frame.item)

\* The save of invocation i succeeded in this step.
SavedNow(i) == TurnEnds(i) /\ chat'[i].calls[Len(chat'[i].calls)].ok

\* C20 (as stated): a turn sent with the id of a stored conversation, once
\* saved, leaves as the stored turn list the list stored before it followed
\* by the new user turn and the new assistant turn.
C20_AppendedEveryTurn ==
  [][\A i \in DOMAIN chat :
       SavedNow(i) /\ KeyOf(i) \in DOMAIN conversationsTable =>
         conversationsTable'[KeyOf(i)].history =
           conversationsTable[KeyOf(i)].history \o NewTurns(i)]_vars

\* C20 (amended): a turn whose save succeeds leaves as the stored turn list
\* the history of its request followed by the new user turn and the new
\* assistant turn, whatever was stored before: that is the list stored before
\* followed by the two turns exactly when the request's history is the list
\* stored before.  A turn whose save fails leaves the store as it was.
C20_OverwrittenWithRequestHistory ==
  [][\A i \in DOMAIN chat :
       TurnEnds(i) =>
         IF SavedNow(i)
         THEN /\ conversationsTable'[KeyOf(i)].history =
                   PriorTurns(chat[i].event) \o NewTurns(i)
              /\ \A k \in DOMAIN conversationsTable \ {KeyOf(i)} :
                   conversationsTable'[k] = conversationsTable[k]
              /\ KeyOf(i) \in DOMAIN conversationsTable =>
                   (conversationsTable'[KeyOf(i)].history =
                      conversationsTable[KeyOf(i)].history \o NewTurns(i))
                   <=> PriorTurns(chat[i].event) =
                         conversationsTable[KeyOf(i)].history
         ELSE conversationsTable' = conversationsTable]_vars

\* A second turn on a stored conversation has been saved, its request
\* carrying the turns that were stored.
C20_Witness ==
  \E i, j \in DOMAIN chat :
    /\ i < j
    /\ ChatReturned(i) /\ SaveOk(i) /\ ChatReturned(j) /\ SaveOk(j)
    /\ KeyOf(i) = KeyOf(j)
    /\ PriorTurns(chat[j].event) = CallOf(i, "save").sent.history
    /\ conversationsTable[KeyOf(j)].history =
         CallOf(i, "save").sent.history \o NewTurns(j)

----------------------------------------------------------------------------
(* Concurrent turns of one conversation *)

\* Number of concurrent invocations of the Chat Handler in SpecRace.
MaxRacers == 2

Bye == Str(<<"bye">>)

\* Two requests of user u1 on the conversation "mine".
RaceEvents ==
  { ChatEvent(ClaimsOf(<<"u1">>), Body(Hello, Str(<<"mine">>), Undefined)),
    ChatEvent(ClaimsOf(<<"u1">>), Body(Bye, Str(<<"mine">>), Arr(FirstTurn))) }

\* Invocations start whether or not another one is running.
NextRace ==
  \/ /\ Len(chat) < MaxRacers
     /\ \E e \in RaceEvents, rnd \in ChatSuffixes : chatHandler(e, rnd)
  \/ \E i \in DOMAIN chat : searchResolves(i, <<>>)
  \/ \E i \in DOMAIN chat : searchRejects(i)
  \/ \E i \in DOMAIN chat, content \in Completions : generateResolves(i, content)
  \/ \E i \in DOMAIN chat : generateRejects(i)
  \/ \E i \in DOMAIN chat : saveResolves(i)
  \/ \E i \in DOMAIN chat : saveRejects(i)

SpecRace == Init /\ [][NextRace]_vars

----------------------------------------------------------------------------
(* The two handlers side by side *)

\* Number of invocations, of either handler, in a behaviour of SpecBoth.
MaxBoth == 2

\* Upload requests of SpecBoth: one for every way the Upload Handler answers.
BothUploadEvents ==
  { Event(Undefined, ParseError),
    Event(Undefined, FormData(<<ReportPdf>>, TitleField)),
    Event(ClaimsOf(<<"u1">>), FormData(<<>>, Undefined)),
    Event(ClaimsOf(<<"u1">>), FormData(<<HugePdf>>, Undefined)),
    Event(ClaimsOf(<<"u1">>), FormData(<<RunExe>>, InvalidJsonField)),
    Event(ClaimsOf(<<"u1">>), FormData(<<ReportPdf>>, UserIdField)),
    Event(ClaimsOf(<<"u2">>), FormData(<<DataBin, ReportPdf>>, TitleField)) }

\* Chat requests of SpecBoth: one for every way the Chat Handler answers.
BothChatEvents ==
  { ChatEvent(ClaimsOf(<<"u1">>), NotJsonBody),
    ChatEvent(ClaimsOf(<<"u1">>), Body(Str(<<>>), Undefined, Undefined)),
    ChatEvent(Undefined, Body(Hello, Str(<<"mine">>), Arr(Earlier))),
    ChatEvent(ClaimsOf(<<"u1">>), Body(Hello, Undefined, Null)),
    ChatEvent(ClaimsOf(<<"u1">>), Body(Hello, Str(<<"mine">>), Arr(Earlier))),
    ChatEvent(ClaimsOf(<<"u2">>), Body(Hello, Undefined, Undefined)) }

BothSearchValues == { <<>>, <<LongChunk, NoContentChunk>>, <<ShortChunk>> }

\* Neither handler is running.
BothIdle == pc \in {"idle", "returned"} /\ ChatIdle

\* One request at a time, to either handler.
NextBoth ==
  \/ /\ invocations + Len(chat) < MaxBoth
     /\ BothIdle
     /\ \E e \in BothUploadEvents : handler(e)
  \/ /\ invocations + Len(chat) < MaxBoth
     /\ BothIdle
     /\ \E e \in BothChatEvents, rnd \in ChatSuffixes : chatHandler(e, rnd)
  \/ s3UploadResolves
  \/ s3UploadRejects
  \/ dynamoPutResolves
  \/ dynamoPutRejects
  \/ sqsSendResolves
  \/ sqsSendRejects
  \/ \E i \in DOMAIN chat, value \in BothSearchValues : searchResolves(i, value)
  \/ \E i \in DOMAIN chat : searchRejects(i)
  \/ \E i \in DOMAIN chat, content \in Completions : generateResolves(i, content)
  \/ \E i \in DOMAIN chat : generateRejects(i)
  \/ \E i \in DOMAIN chat : saveResolves(i)
  \/ \E i \in DOMAIN chat : saveRejects(i)

SpecBoth == Init /\ [][NextBoth]_vars

(***************************************************************************)
(* Every awaited call is settled                                           *)
(***************************************************************************)

MaxLive == 2

\* A request that fails to parse, one that uploads, one refused for its size.
LiveUploadEvents ==
  { Event(Undefined, ParseError),
    Event(ClaimsOf(<<"u1">>), FormData(<<ReportPdf>>, TitleField)),
    Event(ClaimsOf(<<"u1">>), FormData(<<HugePdf>>, Undefined)) }

\* A body that is not JSON, a history that is null, a turn that is saved.
LiveChatEvents ==
  { ChatEvent(ClaimsOf(<<"u1">>), NotJsonBody),
    ChatEvent(ClaimsOf(<<"u1">>), Body(Hello, Undefined, Null)),
    ChatEvent(ClaimsOf(<<"u1">>), Body(Hello, Str(<<"mine">>), Arr(Earlier))) }

LiveSearchValues == { <<>>, <<LongChunk, NoContentChunk>> }

\* The external call an upload awaits returns or fails.
UploadCallSettles ==
  \/ s3UploadResolves
  \/ s3UploadRejects
  \/ dynamoPutResolves
  \/ dynamoPutRejects
  \/ sqsSendResolves
  \/ sqsSendRejects

\* The external call chat invocation i awaits returns or fails.
ChatCallSettles(i) ==
  \/ \E value \in LiveSearchValues : searchResolves(i, value)
  \/ searchRejects(i)
  \/ \E content \in Completions : generateResolves(i, content)
  \/ generateRejects(i)
  \/ saveResolves(i)
  \/ saveRejects(i)

\* One request at a time, to either handler.
NextLive ==
  \/ /\ invocations + Len(chat) < MaxLive
     /\ BothIdle
     /\ \E e \in LiveUploadEvents : handler(e)
  \/ /\ invocations + Len(chat) < MaxLive
     /\ BothIdle
     /\ \E e \in LiveChatEvents, rnd \in ChatSuffixes : chatHandler(e, rnd)
  \/ s3UploadResolves
  \/ s3UploadRejects
  \/ dynamoPutResolves
  \/ dynamoPutRejects
  \/ sqsSendResolves
  \/ sqsSendRejects
  \/ \E i \in DOMAIN chat, value \in LiveSearchValues : searchResolves(i, value)
  \/ \E i \in DOMAIN chat : searchRejects(i)
  \/ \E i \in DOMAIN chat, content \in Completions : generateResolves(i, content)
  \/ \E i \in DOMAIN chat : generateRejects(i)
  \/ \E i \in DOMAIN chat : saveResolves(i)
  \/ \E i \in DOMAIN chat : saveRejects(i)

\* The two handlers under the proviso that every awaited call eventually
\* returns or fails: the promise a handler awaits is settled, and the
\* continuation of an await is run by the event loop.
SpecLive ==
  /\ Init
  /\ [][NextLive]_vars
  /\ WF_vars(UploadCallSettles)
  /\ \A i \in 1..MaxLive : WF_vars(ChatCallSettles(i))

----------------------------------------------------------------------------
(* What the claims on both handlers speak of *)

\* {statusCode, headers, body} with the JSON content type, the open CORS
\* origin and a body that is a JSON text.
WellFormedResponse(r) ==
  /\ DOMAIN r = {"statusCode", "headers", "body"}
  /\ r.headers.ContentType = <<"application", "/", "json">>
  /\ r.headers.AccessControlAllowOrigin = <<"*">>
  /\ IsJsonText(r.body)

\* C21: every response of either handler has the shape {statusCode, headers,
\* body} with Content-Type application/json, Access-Control-Allow-Origin "*"
\* and a JSON-encoded body; the Upload Handler answers only 201, 400, 401,
\* 413 or 500 and the Chat Handler only 200, 400, 401 or 500.
C21_ResponseShape ==
  /\ response # NoResponse =>
       /\ WellFormedResponse(response)
       /\ response.statusCode \in {201, 400, 401, 413, 500}
  /\ \A i \in DOMAIN chat :
       chat[i].response # NoResponse =>
         /\ WellFormedResponse(chat[i].response)
         /\ ChatStatus(i) \in {200, 400, 401, 500}

C21_Witness ==
  /\ Returned /\ response.statusCode = 413
  /\ \E i \in DOMAIN chat : ChatReturned(i) /\ ChatStatus(i) = 200

UploadOps == <<"s3.upload", "dynamoDB.put", "sqs.sendMessage">>

ChatOps == <<"search", "generate", "save">>

\* The calls the running (or last) upload invocation has started: those that
\* are over, then the one it awaits.
UploadAttempts ==
  [k \in 1..Len(calls) |-> calls[k].op]
    \o (IF pc \in {UploadOps[k] : k \in 1..3} THEN <<pc>> ELSE <<>>)

\* The calls chat invocation i has started.
ChatAttempts(i) ==
  [k \in 1..Len(chat[i].calls) |-> chat[i].calls[k].op]
    \o (IF chat[i].pc \in {ChatOps[k] : k \in 1..3} THEN <<chat[i].pc>> ELSE <<>>)

\* Where op stands in the order ops.
Rank(ops, op) == CHOOSE k \in 1..Len(ops) : ops[k] = op

\* Each call of attempts comes later in ops than the one before it: none is
\* made twice and none out of order.
InOrder(ops, attempts) ==
  \A k \in 1..Len(attempts) :
    /\ attempts[k] \in {ops[n] : n \in 1..Len(ops)}
    /\ k > 1 => Rank(ops, attempts[k - 1]) < Rank(ops, attempts[k])

TurnsStored(i) ==
  /\ KeyOf(i) \in DOMAIN conversationsTable
  /\ \E k \in 1..Len(conversationsTable[KeyOf(i)].history) - 1 :
       SubSeq(conversationsTable[KeyOf(i)].history, k, k + 1) = NewTurns(i)

\* C23: concurrent chat invocations on one (user id, conversation id) all
\* answer 200; whenever a save succeeds the stored record becomes the whole
\* item of that invocation, so the record stored at any time is the complete
\* turn list of one invocation whose save succeeded, never a mix of two.
C23_LastSaveWins ==
  /\ [](\A i \in DOMAIN chat : ChatReturned(i) => ChatStatus(i) = 200)
  /\ [](\A key \in DOMAIN conversationsTable :
          \E j \in DOMAIN chat :
            SaveOk(j) /\ CallOf(j, "save").sent = conversationsTable[key])
  /\ [][\A i \in DOMAIN chat :
          SavedNow(i) =>
            conversationsTable'[KeyOf(i)] = chat[i].frame.item]_vars

\* Invocation i started after invocation j and its save succeeded before
\* the save of j did: the record that is left is that of j and the turns i
\* added are not in it.
C23_Witness ==
  \E i, j \in DOMAIN chat :
    /\ j < i
    /\ ChatReturned(i) /\ SaveOk(i) /\ ChatReturned(j) /\ SaveOk(j)
    /\ KeyOf(i) = KeyOf(j)
    /\ ChatStatus(i) = 200 /\ ChatStatus(j) = 200
    /\ conversationsTable[KeyOf(j)] = CallOf(j, "save").sent
    /\ ~TurnsStored(i)

----------------------------------------------------------------------------
(* C24 *)

\* The body of the k-th work item of the queue.
WorkItem(k) == JsonParse(processingQueue[k]).fields

\* The finished upload u wrote its blob, then its record, then sent the work
\* item m about them.
SentBy(u, m) ==
  /\ Len(u.calls) = 3
  /\ \A n \in 1..3 : u.calls[n].op = UploadOps[n] /\ u.calls[n].ok
  /\ u.document.id = m.documentId
  /\ u.document.userId = m.userId
  /\ u.document.s3Key = m.s3Key
  /\ u.document.type = m.fileType
  /\ u.s3Key = m.s3Key.chars

\* The record stored under the id of the work item m names the item's user,
\* storage key and type.
StoredRecordMatches(m) ==
  /\ m.documentId.chars \in DOMAIN documentsTable
  /\ documentsTable[m.documentId.chars].id = m.documentId
  /\ documentsTable[m.documentId.chars].userId = m.userId
  /\ documentsTable[m.documentId.chars].s3Key = m.s3Key
  /\ documentsTable[m.documentId.chars].type = m.fileType

\* The finished uploads that wrote a record under the document id.
RecordWriters(id) ==
  {j \in 1..Len(uploads) :
     /\ uploads[j].documentId = id
     /\ Len(uploads[j].calls) >= 2 /\ uploads[j].calls[2].ok}

\* The running upload has written a record under the document id.
RecordJustWritten(id) == pc = "sqs.sendMessage" /\ frame.documentId = id

\* Two uploads drew the document id of the work item m and both wrote a
\* record under it.
IdDrawnAgain(m) ==
  \/ Cardinality(RecordWriters(m.documentId.chars)) >= 2
  \/ /\ RecordWriters(m.documentId.chars) # {}
     /\ RecordJustWritten(m.documentId.chars)

StatedMax ==
  [v \in EnvValues \ { Str(<<"-5">>) } |->
     CASE v = Str(<<"1000">>) -> 1000
       [] v = Str(<<"1000", "kb">>) -> 1000
       [] v = Str(<<"26214400">>) -> 26214400
       [] OTHER -> 26214400]

\* Blobs, records and work items this invocation has written so far.
BlobsWritten ==
  { key \in DOMAIN s3Objects :
      key \notin DOMAIN before[1]
        \/ s3Objects[key] # before[1][key] }

RecordsWritten ==
  { id \in DOMAIN documentsTable :
      id \notin DOMAIN before[2]
        \/ documentsTable[id] # before[2][id] }

WorkItemsWritten ==
  { k \in 1..Len(processingQueue) : k > Len(before[3]) }

\* Nothing written carries the name, the type or the bytes of another part
\* than the first.
OnlyFirstPartWritten(e) ==
  LET f == FirstFile(e) IN
    /\ \A key \in BlobsWritten :
         /\ s3Objects[key].Body = f.content
         /\ s3Objects[key].ContentType = f.contentType
         /\ s3Objects[key].Metadata.originalName = Str(f.filename)
    /\ \A id \in RecordsWritten :
         /\ documentsTable[id].filename = Str(f.filename)
         /\ documentsTable[id].size = Num(f.content.length)
    /\ \A k \in WorkItemsWritten :
         /\ WorkItem(k).fileType = Str(getFileType(f))
         /\ LET key == WorkItem(k).s3Key.chars
            IN SubSeq(key, Len(key) - Len(f.filename) + 1, Len(key)) = f.filename

\* C25: for an authenticated request with a file, the answer is 413 exactly
\* when the first file is longer than the maximum (a file of exactly the
\* maximum length passes the size check, one byte more is rejected), the
\* maximum being MAX_FILE_SIZE when it parses to a positive integer and
\* 26214400 when it is unset, not numeric or zero; and whatever is written
\* comes from the first file part only.
C25_StrictLimitFirstFileOnly ==
  (pc # "idle" /\ Authenticated(event) /\ HasFile(event)) =>
    /\ OnlyFirstPartWritten(event)
    /\ (Returned /\ processEnv \in DOMAIN StatedMax) =>
         (response.statusCode = 413
            <=> FirstFile(event).content.length > StatedMax[processEnv])

\* A file of exactly the configured maximum (1000) is stored although a part
\* after it is too large and of a type not allowed.
C25_Witness ==
  /\ Returned
  /\ processEnv = Str(<<"1000">>)
  /\ Len(event.parsed.files) = 2
  /\ FirstFile(event).content.length = 1000
  /\ event.parsed.files[2] = HugeExe
  /\ response.statusCode = 201
  /\ BlobsWritten # {}


(***************************************************************************)
(* C26                                                                     *)
(***************************************************************************)

\* C26: after every successful upload the userId, documentId and
\* originalName entries of the blob's metadata block are the caller's
\* subject id, the generated document id and the uploaded file's name,
\* whatever the custom metadata holds.
C26_HandlerEntriesKept ==
  (Returned /\ response.statusCode = 201) =>
    LET block == s3Objects[frame.s3Key].Metadata
    IN /\ block.userId = subOf(event.claims)
       /\ block.documentId = BodyOf(response).id
       /\ block.originalName = Str(FirstFile(event).filename)


(***************************************************************************)
(* C27                                                                     *)
(***************************************************************************)

\* What the running or last upload has written is under its caller's id.
UploadWritesScoped ==
  pc # "idle" =>
    LET u == subOf(event.claims) IN
      /\ \A key \in BlobsWritten :
           /\ Authenticated(event)
           /\ SubSeq(key, 1, Len(u.chars) + 1) = u.chars \o <<"/">>
      /\ \A id \in RecordsWritten :
           Authenticated(event) /\ documentsTable[id].userId = u
      /\ \A k \in WorkItemsWritten :
           Authenticated(event) /\ WorkItem(k).userId = u

\* The keys of the Conversation Store this step wrote.
ConversationsPut ==
  { key \in DOMAIN conversationsTable' :
      key \notin DOMAIN conversationsTable
        \/ conversationsTable'[key] # conversationsTable[key] }

\* Every put of this step is the save of an invocation whose caller's id is
\* both the partition key and the userId of the item.
ChatWritesScoped ==
  \A key \in ConversationsPut :
    \E i \in DOMAIN chat :
      /\ TurnEnds(i)
      /\ HasSub(chat[i].event)
      /\ key[1] = chat[i].event.claims.fields.sub.chars
      /\ conversationsTable'[key].userId = chat[i].event.claims.fields.sub

\* C27: every write is scoped to the authenticated caller: an upload by u
\* writes a blob whose key starts with u/, a record whose userId is u and a
\* work item whose userId is u; a chat request by u puts its conversation
\* under userId u; no conversation id, history, filename or metadata of the
\* request changes that.
C27_WritesScopedToCaller ==
  /\ []UploadWritesScoped
  /\ [][ChatWritesScoped]_vars

\* An upload whose metadata names another user, and a chat turn that names
\* its conversation, have both written.
C27_Witness ==
  /\ Returned /\ response.statusCode = 201
  /\ event.parsed.metadata = UserIdField
  /\ WorkItemsWritten # {}
  /\ \E i \in DOMAIN chat :
       /\ ChatReturned(i) /\ SaveOk(i)
       /\ SuppliedId(chat[i].event) # Undefined
       /\ KeyOf(i) \in DOMAIN conversationsTable


(***************************************************************************)
(* C28                                                                     *)
(***************************************************************************)

\* The body of a response is that of the handlers' catch block.
IsInternalServerError(r) ==
  /\ r.statusCode = 500
  /\ BodyOf(r).error = Str(<<"Internal server error">>)
  /\ "details" \in DOMAIN BodyOf(r)
  /\ IsString(BodyOf(r).details)

\* An exception was raised in the upload invocation: the multipart parse or
\* an awaited call failed.
UploadRaised ==
  \/ ParseRejects(event.parsed)
  \/ \E k \in 1..Len(calls) : ~calls[k].ok

\* An exception is answered 500 by the catch block, in either handler.
ExceptionsAnswered500 ==
  /\ (Returned /\ UploadRaised) => IsInternalServerError(response)
  /\ \A i \in DOMAIN chat :
       (ChatReturned(i) /\ ~IsJsonText(chat[i].event.body)) =>
         IsInternalServerError(chat[i].response)

\* An invocation has a response exactly when it has returned, and it is
\* either running or returned.
OneResponseWhenReturned ==
  /\ pc \in {"idle", "s3.upload", "dynamoDB.put", "sqs.sendMessage", "returned"}
  /\ (response # NoResponse) <=> Returned
  /\ \A i \in DOMAIN chat :
       /\ chat[i].pc \in {"search", "generate", "save", "returned"}
       /\ (chat[i].response # NoResponse) <=> ChatReturned(i)

\* The response of a returned invocation is not replaced.
ResponseKept ==
  /\ (Returned /\ pc' = "returned" /\ invocations' = invocations) =>
       response' = response
  /\ \A i \in DOMAIN chat : ChatReturned(i) => chat'[i] = chat[i]

\* C28: when every external call eventually returns or fails, every
\* invocation of either handler eventually returns, with exactly one
\* response, and never throws; an exception raised before or during the
\* pipeline is answered 500 with error "Internal server error" and details.
C28_AlwaysAnswers ==
  /\ (pc # "idle") ~> Returned
  /\ \A i \in 1..MaxLive : (i \in DOMAIN chat) ~> ChatReturned(i)
  /\ []OneResponseWhenReturned
  /\ [][ResponseKept]_vars
  /\ []ExceptionsAnswered500

\* An upload answered 500 after its queue send failed, and a chat request
\* with an unparsable body answered 500.
C28_Witness ==
  /\ Returned
  /\ Len(calls) = 3 /\ ~calls[3].ok
  /\ IsInternalServerError(response)
  /\ \E i \in DOMAIN chat :
       /\ ChatReturned(i)
       /\ ~IsJsonText(chat[i].event.body)
       /\ IsInternalServerError(chat[i].response)


----------------------------------------------------------------------------
(* The chat page of the browser (src/js/chat.js) *)

MaxSubmissions == 2

\* String.prototype.trim, a blank being the atom " ".
RECURSIVE trimStart(_)
trimStart(s) == IF s # <<>> /\ s[1] = " " THEN trimStart(Tail(s)) ELSE s

RECURSIVE trimEnd(_)
trimEnd(s) ==
  IF s # <<>> /\ s[Len(s)] = " " THEN trimEnd(SubSeq(s, 1, Len(s) - 1)) ELSE s

trim(s) == trimEnd(trimStart(s))

\* String.prototype.includes for a word.
includes(s, word) == \E k \in DOMAIN s : s[k] = word

\* The three canned responses (lines 277-283), by their lengths.
simulatedResponses ==
  <<[text |-> "quarterly results", length |-> 541],
    [text |-> "protocols", length |-> 433],
    [text |-> "meeting notes", length |-> 513]>>

getSimulatedResponse(query) ==
  LET q == toLowerCase(query)
  IN IF includes(q, "financial") \/ includes(q, "report") \/ includes(q, "quarter")
     THEN simulatedResponses[1]
     ELSE IF includes(q, "product") \/ includes(q, "specification")
               \/ includes(q, "protocol")
     THEN simulatedResponses[2]
     ELSE simulatedResponses[3]

\* What a visitor has typed when a submit event or an Enter press comes.
InputValues ==
  { <<>>, <<" ">>, <<" ", "Report", " ">>, <<"which", " ", "PROTOCOL">>,
    <<"hello">> }

\* Math.floor(Math.random() * 5) + 3
StreamSteps == 3..7

searchPageSame == UNCHANGED searchPageVars

serverSame == UNCHANGED <<chatVars, uploadVars, now>>

\* generateResponse up to its setTimeout (lines 126-134).
generateResponse(userMessage) ==
  /\ isGenerating' = TRUE
  /\ chatMessages' = chatMessages \o <<"user", "system">>
  /\ timers' = Append(timers, [kind |-> "timeout", userMessage |-> userMessage])

\* Mutant of handleChatSubmit: a submission is accepted while a response is
\* being generated.
handleChatSubmit_whileGenerating(typed) ==
  /\ submissions' = submissions + 1
  /\ IF trim(typed) = <<>>
     THEN /\ userInput' = typed
          /\ UNCHANGED <<conversationHistory, isGenerating, chatMessages,
                         timers, accepted>>
     ELSE /\ userInput' = <<>>
          /\ conversationHistory' =
               Append(conversationHistory,
                      [role |-> "user", content |-> trim(typed)])
          /\ accepted' = accepted + 1
          /\ generateResponse(trim(typed))
  /\ searchPageSame
  /\ serverSame

\* handleChatSubmit (lines 60-78) with the text typed into userInput.
handleChatSubmit(typed) ==
  /\ submissions' = submissions + 1
  /\ IF trim(typed) = <<>> \/ isGenerating
     THEN /\ userInput' = typed
          /\ UNCHANGED <<conversationHistory, isGenerating, chatMessages,
                         timers, accepted>>
     ELSE /\ userInput' = <<>>
          /\ conversationHistory' =
               Append(conversationHistory,
                      [role |-> "user", content |-> trim(typed)])
          /\ accepted' = accepted + 1
          /\ generateResponse(trim(typed))
  /\ searchPageSame
  /\ serverSame

\* The keydown listener (lines 44-52) for Enter without shift: a submit event
\* is dispatched when the text is not blank.
keydownEnter(typed) ==
  IF trim(typed) # <<>>
  THEN handleChatSubmit(typed)
  ELSE /\ submissions' = submissions + 1
       /\ userInput' = typed
       /\ UNCHANGED <<conversationHistory, isGenerating, chatMessages, timers,
                      accepted>>
       /\ searchPageSame
       /\ serverSame

Without(s, k) == SubSeq(s, 1, k - 1) \o SubSeq(s, k + 1, Len(s))

\* The setTimeout callback (lines 134-146): the indicator goes, the
\* assistant message comes and the streaming interval is set.
timeoutFires(k) ==
  /\ k \in DOMAIN timers
  /\ timers[k].kind = "timeout"
  /\ \E at \in DOMAIN chatMessages :
       /\ chatMessages[at] = "system"
       /\ chatMessages' = Append(Without(chatMessages, at), "assistant")
  /\ timers' =
       [timers EXCEPT ![k] =
          [kind |-> "interval",
           fullResponse |-> getSimulatedResponse(timers[k].userMessage),
           currentLength |-> 0]]
  /\ UNCHANGED <<conversationHistory, isGenerating, userInput, submissions,
                 accepted>>
  /\ searchPageSame
  /\ serverSame

\* Mutant of intervalFires: the response is never pushed to the history.
intervalFires_noPush(k, step) ==
  /\ k \in DOMAIN timers
  /\ timers[k].kind = "interval"
  /\ LET t == timers[k]
         length == t.currentLength + step
     IN IF length >= t.fullResponse.length
        THEN /\ timers' = Without(timers, k)
             /\ isGenerating' = FALSE
             /\ UNCHANGED conversationHistory
        ELSE /\ timers' = [timers EXCEPT ![k].currentLength = length]
             /\ UNCHANGED <<isGenerating, conversationHistory>>
  /\ UNCHANGED <<userInput, chatMessages, submissions, accepted>>
  /\ searchPageSame
  /\ serverSame

\* One run of the setInterval callback (lines 146-167).
intervalFires(k, step) ==
  /\ k \in DOMAIN timers
  /\ timers[k].kind = "interval"
  /\ LET t == timers[k]
         length == t.currentLength + step
     IN IF length >= t.fullResponse.length
        THEN /\ timers' = Without(timers, k)
             /\ isGenerating' = FALSE
             /\ conversationHistory' =
                  Append(conversationHistory,
                         [role |-> "assistant", content |-> t.fullResponse.text])
        ELSE /\ timers' = [timers EXCEPT ![k].currentLength = length]
             /\ UNCHANGED <<isGenerating, conversationHistory>>
  /\ UNCHANGED <<userInput, chatMessages, submissions, accepted>>
  /\ searchPageSame
  /\ serverSame

TimerFires ==
  \E k \in 1..MaxSubmissions :
    timeoutFires(k) \/ \E step \in StreamSteps : intervalFires(k, step)

NextChatPage ==
  \/ submissions < MaxSubmissions /\ \E typed \in InputValues : handleChatSubmit(typed)
  \/ submissions < MaxSubmissions /\ \E typed \in InputValues : keydownEnter(typed)
  \/ \E k \in DOMAIN timers : timeoutFires(k)
  \/ \E k \in DOMAIN timers, step \in StreamSteps : intervalFires(k, step)

\* A timer that is set fires: setTimeout and setInterval callbacks are run
\* by the event loop of the page.
SpecChatPage == Init /\ [][NextChatPage]_vars /\ WF_vars(TimerFires)

(***************************************************************************)
(* C29                                                                     *)
(***************************************************************************)

\* The turns alternate, the first being the user's.
Alternates(history) ==
  \A k \in DOMAIN history :
    history[k].role = IF k % 2 = 1 THEN "user" ELSE "assistant"

\* At most one generation is in flight, and isGenerating says whether one is;
\* the history alternates and holds one assistant turn for every accepted
\* submission but the one being answered.
OneGeneration ==
  /\ Len(timers) <= 1
  /\ isGenerating <=> timers # <<>>
  /\ Alternates(conversationHistory)
  /\ Len(conversationHistory) = 2 * accepted - (IF isGenerating THEN 1 ELSE 0)

\* A submission while a response is generated changes nothing of the page.
SubmissionIgnored ==
  (isGenerating /\ submissions' # submissions) =>
    UNCHANGED <<conversationHistory, isGenerating, chatMessages, timers,
                accepted>>

\* C29: on the chat page at most one generation is in flight (a submission
\* while isGenerating is ignored), conversationHistory alternates user and
\* assistant turns from a user turn on, and every accepted submission is
\* eventually followed by exactly one assistant turn and by isGenerating
\* false.
C29_OneGenerationAnswered ==
  /\ []OneGeneration
  /\ [][SubmissionIgnored]_vars
  /\ \A n \in 1..MaxSubmissions :
       (accepted = n) ~>
         (accepted = n /\ ~isGenerating /\ Len(conversationHistory) = 2 * n)

\* A second submission was accepted after one made during the first
\* generation was ignored: submissions outnumber accepted ones.
C29_Witness ==
  /\ accepted = 1
  /\ submissions = 2
  /\ ~isGenerating
  /\ Len(conversationHistory) = 2
  /\ userInput = <<"hello">>


----------------------------------------------------------------------------
(* The search page of the browser *)

MaxSearchEvents == 4

\* The day on the visitor's clock (new Date() of getSimulatedResults), as
\* yyyymmdd.
Today == 20240520

\* allResults (lines 356-405): type and date of each result; words holds the
\* queries of Queries that its title or snippet contains.
allResults ==
  <<[id |-> 1, type |-> "pdf", date |-> 20240315, words |-> {"the"}],
    [id |-> 2, type |-> "docx", date |-> 20240402, words |-> {"the", "product"}],
    [id |-> 3, type |-> "pdf", date |-> 20240510, words |-> {"the"}],
    [id |-> 4, type |-> "txt", date |-> 20240505, words |-> {"the"}],
    [id |-> 5, type |-> "docx", date |-> 20240228, words |-> {"the"}],
    [id |-> 6, type |-> "pdf", date |-> 20240115, words |-> {"the", "product"}],
    [id |-> 7, type |-> "pdf", date |-> 20231210, words |-> {"the"}],
    [id |-> 8, type |-> "docx", date |-> 20240425, words |-> {"the", "api"}]>>

\* searchInput.value.trim() of a submission; "" is a blank input.
Queries == { "", "the", "product", "api", "zzz" }

\* What the type checkboxes and the date radios can be set to.
FilterValues ==
  { [type |-> {}, date |-> "all"],
    [type |-> {"pdf"}, date |-> "all"],
    [type |-> {"txt", "docx"}, date |-> "month"] }

RECURSIVE SelectSeq2(_, _, _)
\* Array.prototype.filter
SelectSeq2(s, keep(_), k) ==
  IF k > Len(s) THEN <<>>
  ELSE (IF keep(s[k]) THEN <<s[k]>> ELSE <<>>) \o SelectSeq2(s, keep, k + 1)

\* The cutoff of a date filter (lines 424-428): a week or a month back.
cutoffDate(date) == IF date = "week" THEN Today - 7 ELSE Today - 100

resultsPerPage == 3

\* Array.prototype.slice(startIndex, endIndex)
slice(s, startIndex, endIndex) ==
  SubSeq(s, startIndex + 1, IF endIndex < Len(s) THEN endIndex ELSE Len(s))

\* Math.ceil(n / d)
ceilDiv(n, d) == (n + d - 1) \div d

\* getSimulatedResults (lines 354-448).
getSimulatedResults(query, filters, page) ==
  LET matches(r) == query \in r.words
      ofType(r) == filters.type = {} \/ r.type \in filters.type
      recent(r) == filters.date = "all" \/ r.date >= cutoffDate(filters.date)
      kept(r) == matches(r) /\ ofType(r) /\ recent(r)
      filteredResults == SelectSeq2(allResults, kept, 1)
      startIndex == (page - 1) * resultsPerPage
      endIndex == startIndex + resultsPerPage
      pages == ceilDiv(Len(filteredResults), resultsPerPage)
  IN [items |-> slice(filteredResults, startIndex, endIndex),
      totalItems |-> Len(filteredResults),
      totalPages |-> IF pages > 0 THEN pages ELSE 1,
      currentPage |-> page]

chatPageSame == UNCHANGED chatPageVars

\* performSearch (lines 175-193) up to its setTimeout.
performSearch(query, page) ==
  /\ currentQuery' = query
  /\ currentPage' = page
  /\ searchResults' = [shown |-> "searching"]
  /\ pendingSearches' = Append(pendingSearches, [query |-> query, page |-> page])
  /\ UNCHANGED <<totalPages, pagination>>

\* handleSearchSubmit (lines 108-122); the filter controls are as the last
\* change left them, so updateCurrentFilters reads currentFilters back.
handleSearchSubmit(query) ==
  /\ searchEvents' = searchEvents + 1
  /\ IF query = ""
     THEN UNCHANGED <<currentPage, totalPages, currentQuery, searchResults,
                      pagination, pendingSearches>>
     ELSE performSearch(query, 1)
  /\ UNCHANGED currentFilters
  /\ chatPageSame
  /\ serverSame

\* applyFilters (lines 313-324) after a checkbox or radio changed to filters.
applyFilters(filters) ==
  /\ searchEvents' = searchEvents + 1
  /\ currentFilters' = filters
  /\ IF currentQuery # ""
     THEN performSearch(currentQuery, 1)
     ELSE UNCHANGED <<currentPage, totalPages, currentQuery, searchResults,
                      pagination, pendingSearches>>
  /\ chatPageSame
  /\ serverSame

\* clearFilters (lines 329-345).
clearFilters == applyFilters([type |-> {}, date |-> "all"])

\* changePage (lines 297-308).
changePage(page) ==
  /\ searchEvents' = searchEvents + 1
  /\ IF page < 1 \/ page > totalPages
     THEN UNCHANGED <<currentPage, totalPages, currentQuery, searchResults,
                      pagination, pendingSearches>>
     ELSE performSearch(currentQuery, page)
  /\ UNCHANGED currentFilters
  /\ chatPageSame
  /\ serverSame

\* A click on the previous button (line 64), which is shown and enabled.
prevPageClick ==
  /\ ~pagination.hidden /\ ~pagination.prevDisabled
  /\ changePage(currentPage - 1)

\* A click on the next button (line 68), which is shown and enabled.
nextPageClick ==
  /\ ~pagination.hidden /\ ~pagination.nextDisabled
  /\ changePage(currentPage + 1)

\* updatePaginationUI (lines 273-291) after currentPage became page.
updatePaginationUI(pages, page) ==
  IF pages <= 1
  THEN [pagination EXCEPT !.hidden = TRUE]
  ELSE [hidden |-> FALSE,
        prevDisabled |-> page <= 1,
        nextDisabled |-> page >= pages]

\* displaySearchResults (lines 200-267).
displaySearchResults(results, page) ==
  /\ totalPages' = results.totalPages
  /\ currentPage' = page
  /\ IF Len(results.items) = 0
     THEN /\ searchResults' = [shown |-> "No results found.", items |-> <<>>]
          /\ pagination' = [pagination EXCEPT !.hidden = TRUE]
     ELSE /\ searchResults' = [shown |-> "results", items |-> results.items]
          /\ pagination' = updatePaginationUI(results.totalPages, page)

\* The oldest setTimeout callback of performSearch runs (lines 189-192):
\* the timers have the same delay, so they fire in the order they were set.
resultsDelivered ==
  /\ pendingSearches # <<>>
  /\ LET search == Head(pendingSearches)
     IN displaySearchResults(
          getSimulatedResults(search.query, currentFilters, search.page),
          search.page)
  /\ pendingSearches' = Tail(pendingSearches)
  /\ UNCHANGED <<currentQuery, currentFilters, searchEvents>>
  /\ chatPageSame
  /\ serverSame

NextSearchPage ==
  \/ searchEvents < MaxSearchEvents /\ \E query \in Queries : handleSearchSubmit(query)
  \/ searchEvents < MaxSearchEvents /\ \E filters \in FilterValues : applyFilters(filters)
  \/ searchEvents < MaxSearchEvents /\ clearFilters
  \/ searchEvents < MaxSearchEvents /\ prevPageClick
  \/ searchEvents < MaxSearchEvents /\ nextPageClick
  \/ resultsDelivered

SpecSearchPage == Init /\ [][NextSearchPage]_vars

(***************************************************************************)
(* C30                                                                     *)
(***************************************************************************)

\* C30: once no result delivery is pending, the search page has
\* 1 <= currentPage <= totalPages and shows the items of page currentPage
\* for the current query and filters; in particular a page click made while
\* an earlier search is pending never leaves the view past the last page.
C30_ViewWithinPages ==
  (pendingSearches = <<>> /\ currentQuery # "") =>
    /\ 1 <= currentPage
    /\ currentPage <= totalPages
    /\ searchResults.items =
         getSimulatedResults(currentQuery, currentFilters, currentPage).items

====
